---- MODULE Spec2Model ----
(***************************************************************************)
(* Model of the viewport engine of rust-pager (src/src/writer.rs): the     *)
(* UiContext with its reflow, search, scroll and prompt state, the         *)
(* attribute-diffing ChWriter, the SizeContext, and the run() loop that    *)
(* merges terminal events with the lines a producer pushes into the        *)
(* bounded queue rx.                                                       *)
(*                                                                         *)
(* Rust vectors are modelled as TLA+ sequences.  Index VALUES stored in    *)
(* the state (scroll, association entries, match starts) are the 0-based   *)
(* values of the source; Slice and At convert at the point of access.      *)
(***************************************************************************)
EXTENDS Integers, Sequences, FiniteSets, TLC

\* ------------------------------------------------------------------------
\* Bounds of the model
\* ------------------------------------------------------------------------

\* number of lines the producer offers to the queue in one behaviour
MaxLines == 3

\* capacity of the ArrayQueue rx (chosen by the caller of UiContext::new)
QueueCap == 3

\* BULK_LINE is 5000 in run(); the model scales it down so that a tick can
\* meet the cap with lines still waiting in the queue.
BULK_LINE == 2

\* largest numeric prefix the modelled user types (guards the digit key)
MaxPrefix == 3

\* longest search buffer the modelled user types
MaxNeedle == 2

\* width of usize in the model (64 in the build): USIZE_MAX = 2^UsizeBits - 1
\* characters in a styled line of the writer runs
MaxStyled == 3

UsizeBits == 16

USIZE_MAX == (2 ^ UsizeBits) - 1

\* ------------------------------------------------------------------------
\* Helpers for Rust vectors and usize arithmetic
\* ------------------------------------------------------------------------

Min(a, b) == IF a < b THEN a ELSE b

\* v[a..b] for 0 <= a <= b <= len
Slice(v, a, b) == SubSeq(v, a + 1, b)

\* v[i], 0-based
At(v, i) == v[i + 1]

saturating_add(a, b) == Min(a + b, USIZE_MAX)

saturating_sub(a, b) == IF a < b THEN 0 ELSE a - b

\* a * b modulo 2^UsizeBits, by doubling, so that no intermediate value
\* exceeds three times the modulus
RECURSIVE wrapping_mul(_, _)
wrapping_mul(a, b) ==
    IF b = 0 THEN 0
    ELSE (2 * wrapping_mul(a, b \div 2) + (b % 2) * a) % (USIZE_MAX + 1)

\* ------------------------------------------------------------------------
\* Styled characters (crate::shared::RpChar) and glyph widths
\* ------------------------------------------------------------------------

\* Glyphs of the model: "a", "b" are narrow, "W" is a double-width glyph
\* (East Asian wide), "z" is a zero-width combining mark.
Glyphs == {"a", "b", "W", "z"}

\* c.ch.width().unwrap_or(0)
width(ch) == CASE ch = "W" -> 2
               [] ch = "z" -> 0
               [] OTHER -> 1

\* an RpChar with default styling
Plain(g) == [ch |-> g, foreground |-> "Reset", background |-> "Reset", attribute |-> {}]

\* an RpLine with default styling from a sequence of glyphs
PlainLine(gs) == [i \in 1..Len(gs) |-> Plain(gs[i])]

RECURSIVE line_width(_)
line_width(l) == IF Len(l) = 0 THEN 0 ELSE width(l[1].ch) + line_width(Tail(l))

line_line_size(l, column) ==
    LET w == line_width(l) IN
    IF w = 0 THEN 1
    ELSE IF w % column = 0 THEN w \div column
    ELSE (w \div column) + 1

\* ------------------------------------------------------------------------
\* SizeContext
\* ------------------------------------------------------------------------

\* resize on unix: one row is reserved for the prompt
resize(terminal_column, terminal_line) ==
    [terminal_column |-> terminal_column, terminal_line |-> terminal_line - 1]

\* real_size_loop changed to pass over a line that does not fit
RECURSIVE real_size_loop_skipping(_, _, _, _, _)
real_size_loop_skipping(lines, n, column, real, left) ==
    IF n = 0 THEN <<real, left>>
    ELSE LET size == line_line_size(lines[n], column) IN
         IF left >= size
         THEN real_size_loop_skipping(lines, n - 1, column, real + 1, left - size)
         ELSE real_size_loop_skipping(lines, n - 1, column, real, left)

\* the loop of calculate_real_size over lines[1..n], last line first
RECURSIVE real_size_loop(_, _, _, _, _)
real_size_loop(lines, n, column, real, left) ==
    IF n = 0 THEN <<real, left>>
    ELSE LET size == line_line_size(lines[n], column) IN
         IF left >= size
         THEN real_size_loop(lines, n - 1, column, real + 1, left - size)
         ELSE <<real, left>>

calculate_real_size(size_ctx, lines) ==
    real_size_loop(lines, Len(lines), size_ctx.terminal_column, 0, size_ctx.terminal_line)

\* ------------------------------------------------------------------------
\* ScrollSize
\* ------------------------------------------------------------------------

ScrollSizes == {"One", "HalfPage", "Page", "End"}

calculate(size, terminal_line) ==
    CASE size = "One" -> 1
      [] size = "HalfPage" -> terminal_line \div 2
      [] size = "Page" -> terminal_line
      [] size = "End" -> USIZE_MAX

\* ------------------------------------------------------------------------
\* ChWriter: the attribute-diffing writer.  The byte buffer `out` the source
\* passes to every call is carried in the writer record as a sequence of
\* tokens, one per queued command or glyph.
\* ------------------------------------------------------------------------

Tok(op, attrs, arg) == [op |-> op, attrs |-> attrs, arg |-> arg]

ChWriter_new(terminal_column) ==
    [terminal_column |-> terminal_column,
     wrap |-> 0,
     pos |-> 0,
     current_color |-> "Reset",
     current_bgcolor |-> "Reset",
     current_attribute |-> {},
     out |-> <<>>]

\* `if self.current_attribute != ch.attribute`
write_attribute(w, ch) ==
    IF w.current_attribute # ch.attribute
    THEN [w EXCEPT
            !.out = Append(@, Tok("SetAttributes", ch.attribute, "")),
            !.current_color = IF "Reset" \in ch.attribute THEN "Reset" ELSE @,
            !.current_bgcolor = IF "Reset" \in ch.attribute THEN "Reset" ELSE @,
            !.current_attribute = ch.attribute]
    ELSE w

\* write_foreground changed to set the colour for every character
write_foreground_always(w, ch) ==
    [w EXCEPT
       !.out = Append(@, Tok("SetForegroundColor", {}, ch.foreground)),
       !.current_color = ch.foreground]

\* `if ch.foreground != self.current_color`
write_foreground(w, ch) ==
    IF ch.foreground # w.current_color
    THEN [w EXCEPT
            !.out = Append(@, Tok("SetForegroundColor", {}, ch.foreground)),
            !.current_color = ch.foreground]
    ELSE w

\* `if ch.background != self.current_bgcolor`
write_background(w, ch) ==
    IF ch.background # w.current_bgcolor
    THEN [w EXCEPT
            !.out = Append(@, Tok("SetBackgroundColor", {}, ch.background)),
            !.current_bgcolor = ch.background]
    ELSE w

\* the wrap accounting and the glyph itself
write_glyph(w, ch) ==
    IF w.pos + width(ch.ch) > w.terminal_column
    THEN [w EXCEPT
            !.out = @ \o <<Tok("MoveToNextLine", {}, ""),
                           Tok("Clear", {}, "CurrentLine"),
                           Tok("Glyph", {}, ch.ch)>>,
            !.wrap = @ + 1,
            !.pos = width(ch.ch)]
    ELSE [w EXCEPT !.out = Append(@, Tok("Glyph", {}, ch.ch)),
                   !.pos = @ + width(ch.ch)]

write(w, ch) ==
    write_glyph(write_background(write_foreground(write_attribute(w, ch), ch), ch), ch)

RECURSIVE write_slice(_, _)
write_slice(w, chars) ==
    IF Len(chars) = 0 THEN w
    ELSE write_slice(write(w, chars[1]), Tail(chars))

RECURSIVE write_each_reversed(_, _)
write_each_reversed(w, chars) ==
    IF Len(chars) = 0 THEN w
    ELSE write_each_reversed(
             write(w, [chars[1] EXCEPT !.attribute = @ \cup {"Reverse"}]),
             Tail(chars))

\* write_slice_reverse changed to leave the tracked attribute set as written
write_slice_reverse_tracked(w, chars) ==
    [write_each_reversed(w, chars)
        EXCEPT !.out = Append(@, Tok("SetAttribute", {}, "NoReverse"))]

write_slice_reverse(w, chars) ==
    [write_each_reversed(w, chars)
        EXCEPT !.current_attribute = @ \ {"Reverse"},
               !.out = Append(@, Tok("SetAttribute", {}, "NoReverse"))]

\* queue!(out, ...) of a command that does not go through the writer
Queue(w, op, arg) == [w EXCEPT !.out = Append(@, Tok(op, {}, arg))]

\* ------------------------------------------------------------------------
\* Key events and the default key map
\* ------------------------------------------------------------------------

\* KeyEvent::new(code, modifiers); a character key carries its character
Key(code, c, modifiers) == [code |-> code, c |-> c, modifiers |-> modifiers]

Char(c) == Key("Char", c, {})

Shift(c) == Key("Char", c, {"SHIFT"})

Ctrl(c) == Key("Char", c, {"CONTROL"})

Named(code) == Key(code, "", {})

\* KeyBehavior values
Behavior(kind, size, n) == [kind |-> kind, size |-> size, n |-> n]

Down(size) == Behavior("Down", size, 0)

Up(size) == Behavior("Up", size, 0)

Number(n) == Behavior("Number", "", n)

Quit == Behavior("Quit", "", 0)

SearchNext == Behavior("SearchNext", "", 0)

SearchPrev == Behavior("SearchPrev", "", 0)

NormalMode == Behavior("NormalMode", "", 0)

Search == Behavior("Search", "", 0)

\* the dict.insert calls of default_keymap, in the order the macro makes them
default_keymap_inserts ==
    << <<Named("Enter"), Down("One")>>,
       <<Named("Down"), Down("One")>>,
       <<Char("j"), Down("One")>>,
       <<Named("Up"), Up("One")>>,
       <<Char("k"), Up("One")>>,
       <<Char("u"), Up("HalfPage")>>,
       <<Char("d"), Down("HalfPage")>>,
       <<Named("Left"), Up("HalfPage")>>,
       <<Named("Right"), Down("HalfPage")>>,
       <<Char("f"), Down("Page")>>,
       <<Char(" "), Down("Page")>>,
       <<Char("b"), Up("Page")>>,
       <<Named("PageDown"), Down("Page")>>,
       <<Named("PageUp"), Up("Page")>>,
       <<Named("Esc"), NormalMode>>,
       <<Named("Home"), Up("End")>>,
       <<Named("End"), Down("End")>>,
       <<Char("g"), Up("End")>>,
       <<Char("q"), Quit>>,
       <<Char("/"), Search>>,
       <<Char("n"), SearchNext>>,
       <<Char("0"), Number(0)>>,
       <<Char("1"), Number(1)>>,
       <<Char("2"), Number(2)>>,
       <<Char("3"), Number(3)>>,
       <<Char("4"), Number(4)>>,
       <<Char("5"), Number(5)>>,
       <<Char("6"), Number(6)>>,
       <<Char("7"), Number(7)>>,
       <<Char("8"), Number(8)>>,
       <<Char("9"), Number(9)>>,
       <<Shift("G"), Down("End")>>,
       <<Shift("N"), SearchPrev>>,
       <<Shift("Q"), Quit>>,
       <<Ctrl("u"), Up("HalfPage")>>,
       <<Ctrl("d"), Down("HalfPage")>>,
       <<Ctrl("f"), Down("Page")>>,
       <<Ctrl("v"), Down("Page")>>,
       <<Ctrl("b"), Up("Page")>>,
       <<Ctrl("e"), Down("One")>>,
       <<Ctrl("n"), Down("One")>>,
       <<Ctrl("y"), Up("One")>>,
       <<Ctrl("k"), Up("One")>>,
       <<Ctrl("p"), Up("One")>>,
       <<Ctrl("d"), Quit>>,
       <<Ctrl("c"), Quit>> >>

\* positions of the inserts made for key event ke
keymap_hits(ke) ==
    {i \in 1..Len(default_keymap_inserts) : default_keymap_inserts[i][1] = ke}

\* self.keymap.get(&ke): an insert replaces the value of an equal key, so the
\* last insert for ke is the one the map holds; None is kind "None"
keymap_get(ke) ==
    IF keymap_hits(ke) = {} THEN Behavior("None", "", 0)
    ELSE default_keymap_inserts[
             CHOOSE i \in keymap_hits(ke) : \A j \in keymap_hits(ke) : j <= i][2]

\* ------------------------------------------------------------------------
\* UiContext.  A context is a record c with the fields of the struct; the
\* methods are operators from a context to the context they leave behind.
\* c.panic is "" while the process runs and names the failure once a method
\* has panicked ("index": slice or index out of range, "wtf": the explicit
\* panic of the highlight loop, "hang": the reflow loop never ends); a
\* failed context is returned as it was when the failure happened.
\* Terminal writes are taken to succeed; the terminal itself is not part of
\* the state: write_prompt and redraw_prompt send c.prompt as it then is, so
\* the prompt row on the screen is c.prompt after every update that drew.
\* ------------------------------------------------------------------------

PromptNormal == [kind |-> "Normal", n |-> 0, s |-> <<>>]

PromptNumber(n) == [kind |-> "Number", n |-> n, s |-> <<>>]

PromptSearch(s) == [kind |-> "Search", n |-> 0, s |-> s]

\* the text of the prompt row: "" before the first update_prompt
NoPrompt ==
    [kind |-> "", first |-> 0, last |-> 0, total |-> 0, at_end |-> FALSE,
     n |-> 0, s |-> <<>>]

\* The terminal device: sent is the sequence of mode commands that have
\* taken effect on it, failed tells whether a command of the teardown has
\* returned an error.
get_output == [sent |-> <<>>, failed |-> FALSE]

enable_raw_mode(t) == [t EXCEPT !.sent = Append(@, "EnableRawMode")]

\* disable_raw_mode(), which succeeds or not
disable_raw_mode(t, ok) ==
    IF ok THEN [t EXCEPT !.sent = Append(@, "DisableRawMode")]
    ELSE [t EXCEPT !.failed = TRUE]

\* execute!(output, commands...): the first n commands take effect; with
\* n < Len(commands) the macro returns an error
execute(t, commands, n) ==
    [t EXCEPT !.sent = @ \o SubSeq(commands, 1, n),
              !.failed = @ \/ n < Len(commands)]

\* UiContext::new for a terminal of x columns and y rows, every call of it
\* having succeeded
UiContext_new(x, y) ==
    [output |-> execute(enable_raw_mode(get_output),
                        <<"EnterAlternateScreen", "EnableMouseCapture",
                          "DisableLineWrap", "Hide">>, 4),
     lines |-> <<>>,
     reflowed_lines |-> <<>>,
     reflowed_lines_associations |-> <<>>,
     scroll |-> 0,
     search_positions |-> <<>>,
     reflowed_search_positions |-> <<>>,
     search_char_len |-> 0,
     size_ctx |-> resize(x, y),
     need_redraw |-> TRUE,
     need_reflow |-> TRUE,
     prev_wrap |-> 0,
     prompt_state |-> PromptNormal,
     prompt_outdated |-> TRUE,
     prompt |-> NoPrompt,
     panic |-> ""]

Fail(c, why) == [c EXCEPT !.panic = why]

max_scroll(c) ==
    saturating_sub(Len(c.reflowed_lines),
                   calculate_real_size(c.size_ctx, c.reflowed_lines)[1])

\* push_line changed to put the new line in front of the buffered ones
push_line_front(c, line) ==
    [c EXCEPT
       !.need_redraw = IF Len(c.lines) < c.size_ctx.terminal_line THEN TRUE ELSE @,
       !.prompt_outdated = TRUE,
       !.lines = <<line>> \o @]

push_line(c, line) ==
    [c EXCEPT
       !.need_redraw = IF Len(c.lines) < c.size_ctx.terminal_line THEN TRUE ELSE @,
       !.prompt_outdated = TRUE,
       !.lines = Append(@, line)]

\* goto_scroll changed to clamp to the number of reflowed lines instead of
\* max_scroll
goto_scroll_to_len(c, idx) ==
    LET new_scroll == Min(idx, Len(c.reflowed_lines)) IN
    IF new_scroll # c.scroll
    THEN [c EXCEPT !.scroll = new_scroll,
                   !.need_redraw = TRUE,
                   !.prompt_outdated = TRUE]
    ELSE c

goto_scroll(c, idx) ==
    LET new_scroll == Min(idx, max_scroll(c)) IN
    IF new_scroll # c.scroll
    THEN [c EXCEPT !.scroll = new_scroll,
                   !.need_redraw = TRUE,
                   !.prompt_outdated = TRUE]
    ELSE c

scroll_down(c, idx) == goto_scroll(c, saturating_add(c.scroll, idx))

scroll_up(c, idx) == goto_scroll(c, saturating_sub(c.scroll, idx))

\* ------------------------------------------------------------------------
\* Reflow (the need_reflow block of update)
\* ------------------------------------------------------------------------

\* reflow_chunks changed to step by the terminal columns (w + 1) while
\* cutting slices of at most w
RECURSIVE reflow_chunks_stride(_, _, _)
reflow_chunks_stride(line, w, takes) ==
    LET start == takes * (w + 1)
        end == Min(start + w, Len(line))
    IN IF start < Len(line)
       THEN <<Slice(line, start, end)>> \o reflow_chunks_stride(line, w, takes + 1)
       ELSE <<>>

\* the loop over `takes` for one non-empty line, wrap width w >= 1
RECURSIVE reflow_chunks(_, _, _)
reflow_chunks(line, w, takes) ==
    LET start == takes * w
        end == Min(start + w, Len(line))
    IN IF start < Len(line)
       THEN <<Slice(line, start, end)>> \o reflow_chunks(line, w, takes + 1)
       ELSE <<>>

\* reflow_lines changed to associate a blank line with len() instead of
\* len() - 1
RECURSIVE reflow_lines_blank_off(_, _, _, _)
reflow_lines_blank_off(lines, i, w, acc) ==
    IF i > Len(lines) THEN acc
    ELSE LET line == lines[i] IN
         IF Len(line) < 1
         THEN reflow_lines_blank_off(lines, i + 1, w,
                  [reflowed_lines |-> Append(acc.reflowed_lines, line),
                   associations |-> Append(acc.associations,
                                           <<Len(acc.reflowed_lines) + 1>>)])
         ELSE LET chunks == reflow_chunks(line, w, 0) IN
              reflow_lines_blank_off(lines, i + 1, w,
                  [reflowed_lines |-> acc.reflowed_lines \o chunks,
                   associations |-> Append(acc.associations,
                       [k \in 1..Len(chunks) |-> Len(acc.reflowed_lines) + k - 1])])

\* the loop over self.lines from line i on; acc holds the two vectors built
RECURSIVE reflow_lines(_, _, _, _)
reflow_lines(lines, i, w, acc) ==
    IF i > Len(lines) THEN acc
    ELSE LET line == lines[i] IN
         IF Len(line) < 1
         THEN reflow_lines(lines, i + 1, w,
                  [reflowed_lines |-> Append(acc.reflowed_lines, line),
                   associations |-> Append(acc.associations,
                                           <<Len(acc.reflowed_lines)>>)])
         ELSE LET chunks == reflow_chunks(line, w, 0) IN
              reflow_lines(lines, i + 1, w,
                  [reflowed_lines |-> acc.reflowed_lines \o chunks,
                   associations |-> Append(acc.associations,
                       [k \in 1..Len(chunks) |-> Len(acc.reflowed_lines) + k - 1])])

reflow(lines, terminal_column) ==
    reflow_lines(lines, 1, terminal_column - 1,
                 [reflowed_lines |-> <<>>, associations |-> <<>>])

\* ------------------------------------------------------------------------
\* Search
\* ------------------------------------------------------------------------

\* the glyphs of a slice of styled characters
glyphs_of(chars) == [k \in 1..Len(chars) |-> chars[k].ch]

\* chars[i..].iter().take(char_count).map(|c| c.ch).eq(needle.chars())
matches_at(chars, i, needle) ==
    glyphs_of(Slice(chars, i, Min(i + Len(needle), Len(chars)))) = needle

\* the scan of one line: the loop `for i in 0..chars.len()` from i on
RECURSIVE scan_line(_, _, _)
scan_line(chars, i, needle) ==
    IF i >= Len(chars) THEN <<>>
    ELSE (IF matches_at(chars, i, needle) THEN <<i>> ELSE <<>>)
         \o scan_line(chars, i + 1, needle)

\* indexes_to_remove changed to remember the start of every match it looks
\* at, removed or not
RECURSIVE indexes_to_remove_any_previous(_, _, _, _)
indexes_to_remove_any_previous(positions, k, previous_start, char_len) ==
    IF k > Len(positions) THEN <<>>
    ELSE IF previous_start = -1
         THEN indexes_to_remove_any_previous(positions, k + 1, positions[k], char_len)
         ELSE IF previous_start + char_len > positions[k]
              THEN <<k - 1>> \o indexes_to_remove_any_previous(
                                    positions, k + 1, positions[k], char_len)
              ELSE indexes_to_remove_any_previous(positions, k + 1, positions[k], char_len)

\* first pass of "remove duplicate matches": the 0-based indexes to remove,
\* from the k-th position on; previous_start is -1 for None
RECURSIVE indexes_to_remove(_, _, _, _)
indexes_to_remove(positions, k, previous_start, char_len) ==
    IF k > Len(positions) THEN <<>>
    ELSE IF previous_start = -1
         THEN indexes_to_remove(positions, k + 1, positions[k], char_len)
         ELSE IF previous_start + char_len > positions[k]
              THEN <<k - 1>> \o indexes_to_remove(positions, k + 1, previous_start, char_len)
              ELSE indexes_to_remove(positions, k + 1, positions[k], char_len)

\* Vec::remove(index)
remove(v, index) == Slice(v, 0, index) \o Slice(v, index + 1, Len(v))

\* second pass: remove the indexes from behind, the k-th index first
RECURSIVE remove_from_behind(_, _, _)
remove_from_behind(positions, indexes, k) ==
    IF k = 0 THEN positions
    ELSE remove_from_behind(remove(positions, indexes[k]), indexes, k - 1)

dedup(positions, char_len) ==
    LET indexes == indexes_to_remove(positions, 1, -1, char_len) IN
    remove_from_behind(positions, indexes, Len(indexes))

\* the positions of one logical line that fall into chunk cut_index
positions_of_cut(positions, cut_index, w) ==
    LET InCut(p) == p \div w = cut_index
        hits == SelectSeq(positions, InCut)
    IN [k \in 1..Len(hits) |-> hits[k] % w]

\* the loop of reflow_search over self.search_positions from index i (0-based)
\* on; rsp is reflowed_search_positions as built so far
RECURSIVE reflow_search_loop(_, _, _, _)
reflow_search_loop(c, i, w, rsp) ==
    IF i >= Len(c.search_positions)
    THEN [c EXCEPT !.reflowed_search_positions = rsp]
    ELSE IF i >= Len(c.reflowed_lines_associations)
         THEN reflow_search_loop(c, i + 1, w, rsp)
         ELSE LET positions == At(c.search_positions, i)
                  linked == At(c.reflowed_lines_associations, i)
              IN IF Len(positions) > 0 /\ w = 0
                 THEN Fail([c EXCEPT !.reflowed_search_positions = rsp], "index")
                 ELSE IF \E k \in 1..Len(positions) : positions[k] \div w >= Len(linked)
                      THEN Fail([c EXCEPT !.reflowed_search_positions = rsp], "index")
                      ELSE reflow_search_loop(c, i + 1, w,
                               [r \in 1..Len(rsp) |->
                                   IF \E cut \in 1..Len(linked) : linked[cut] = r - 1
                                   THEN positions_of_cut(positions,
                                            (CHOOSE cut \in 1..Len(linked) : linked[cut] = r - 1) - 1,
                                            w)
                                   ELSE rsp[r]])

reflow_search(c) ==
    reflow_search_loop(c, 0, c.size_ctx.terminal_column - 1,
                       [r \in 1..Len(c.reflowed_lines) |-> <<>>])

\* search_order changed to look at the current line first
search_order_from_current(c, forward) ==
    LET n == Len(c.reflowed_search_positions)
        next == [k \in 1..(n - c.scroll) |-> c.scroll + k - 1]
        prev == [k \in 1..c.scroll |-> k - 1]
        next_rev == [k \in 1..(n - c.scroll) |-> n - k]
        prev_rev == [k \in 1..c.scroll |-> c.scroll - k]
    IN IF forward THEN next \o prev ELSE prev_rev \o next_rev

\* the reflowed line indexes move_search looks at, in the order it looks
search_order(c, forward) ==
    LET n == Len(c.reflowed_search_positions)
        next == [k \in 1..(n - 1 - c.scroll) |-> c.scroll + k]
        prev == [k \in 1..c.scroll |-> k - 1]
        next_rev == [k \in 1..(n - 1 - c.scroll) |-> n - k]
        prev_rev == [k \in 1..c.scroll |-> c.scroll - k]
    IN IF forward THEN next \o prev ELSE prev_rev \o next_rev

move_search(c, forward) ==
    IF c.scroll > Len(c.reflowed_search_positions) THEN Fail(c, "index")
    ELSE LET order == search_order(c, forward)
             found == {k \in 1..Len(order) :
                          Len(At(c.reflowed_search_positions, order[k])) > 0}
         IN IF found = {} THEN c
            ELSE goto_scroll(c, order[CHOOSE k \in found : \A j \in found : k <= j])

search(c, needle) ==
    LET c1 == IF Len(c.search_positions) > 0
              THEN [c EXCEPT !.need_redraw = TRUE, !.search_positions = <<>>]
              ELSE c
        char_count == Len(needle)
        c2 == [c1 EXCEPT !.search_char_len = char_count]
    IN IF char_count = 0 THEN c2
       ELSE LET c3 == [c2 EXCEPT
                         !.need_redraw = TRUE,
                         !.search_positions =
                             [k \in 1..Len(c.lines) |->
                                 dedup(scan_line(c.lines[k], 0, needle), char_count)]]
                c4 == reflow_search(c3)
            IN IF c4.panic # "" THEN c4 ELSE move_search(c4, TRUE)

\* ------------------------------------------------------------------------
\* The redraw block of update: the frame written through a ChWriter.
\* A render state st is [w, prev_pos, overflow, panic].
\* ------------------------------------------------------------------------

\* the loop `for pos in search.iter()` of one line, from the k-th position on
RECURSIVE render_matches(_, _, _, _, _)
render_matches(st, line, positions, k, search_char_len) ==
    IF st.panic # "" \/ k > Len(positions) THEN st
    ELSE LET start == positions[k]
             over == start + search_char_len > Len(line)
             end == IF over THEN Len(line) ELSE start + search_char_len
             overflow == IF over THEN start + search_char_len - Len(line)
                         ELSE st.overflow
         IN IF start > end THEN [st EXCEPT !.overflow = overflow, !.panic = "wtf"]
            ELSE IF st.prev_pos > start
                 THEN [st EXCEPT !.overflow = overflow, !.panic = "index"]
                 ELSE render_matches(
                          [w |-> write_slice_reverse(
                                     write_slice(st.w, Slice(line, st.prev_pos, start)),
                                     Slice(line, start, end)),
                           prev_pos |-> end,
                           overflow |-> overflow,
                           panic |-> ""],
                          line, positions, k + 1, search_char_len)

\* one iteration of the search-active `while let Some((line, search))`:
\* the carried-over part of a match that began on the row above
render_search_line_start(st, line) ==
    IF st.overflow > 0
    THEN [w |-> write_slice_reverse(Queue(st.w, "Clear", "CurrentLine"),
                                    Slice(line, 0, st.overflow)),
          prev_pos |-> st.overflow, overflow |-> 0, panic |-> ""]
    ELSE [w |-> Queue(st.w, "Clear", "CurrentLine"),
          prev_pos |-> 0, overflow |-> 0, panic |-> ""]

\* the rest of the line after the last match, and the move to the next row
render_search_line_end(st, line) ==
    IF st.panic # "" THEN st
    ELSE [st EXCEPT
            !.w = Queue([write_slice(st.w, Slice(line, st.prev_pos, Len(line)))
                            EXCEPT !.pos = 0],
                        "MoveToNextLine", "")]

render_search_line(st, line, positions, search_char_len) ==
    IF st.overflow > Len(line)
    THEN [st EXCEPT !.w = Queue(st.w, "Clear", "CurrentLine"), !.panic = "index"]
    ELSE render_search_line_end(
             render_matches(render_search_line_start(st, line),
                            line, positions, 1, search_char_len),
             line)

\* the search-active loop over reflowed lines i..end-1 (0-based)
RECURSIVE render_search_lines(_, _, _, _)
render_search_lines(c, st, i, end) ==
    IF st.panic # "" \/ i >= end THEN st
    ELSE render_search_lines(c,
             render_search_line(st, At(c.reflowed_lines, i),
                                At(c.reflowed_search_positions, i), c.search_char_len),
             i + 1, end)

\* the plain loop over reflowed lines i..end-1 (0-based)
RECURSIVE render_plain_lines(_, _, _, _)
render_plain_lines(c, w, i, end) ==
    IF i >= end THEN w
    ELSE render_plain_lines(c,
             Queue([write_slice(Queue(w, "Clear", "CurrentLine"), At(c.reflowed_lines, i))
                       EXCEPT !.pos = 0],
                   "MoveToNextLine", ""),
             i + 1, end)

\* `for _ in 0..margin`
RECURSIVE render_margin(_, _)
render_margin(w, margin) ==
    IF margin = 0 THEN w
    ELSE render_margin(Queue(Queue(w, "Clear", "CurrentLine"), "MoveToNextLine", ""),
                       margin - 1)

\* the frame of the redraw block up to `self.prev_wrap = ch_writer.wrap`:
\* a record whose field w is the writer with the frame in w.out and whose
\* field panic is "" or the failure; size is <<real, margin>>
render_lines(c, size) ==
    IF Len(c.reflowed_search_positions) = 0
    THEN [w |-> render_plain_lines(
                    c,
                    render_margin(
                        Queue(ChWriter_new(c.size_ctx.terminal_column), "MoveTo", "0,0"),
                        size[2]),
                    c.scroll, c.scroll + size[1]),
          prev_pos |-> 0, overflow |-> 0, panic |-> ""]
    ELSE IF c.scroll + size[1] > Len(c.reflowed_search_positions)
         THEN [w |-> ChWriter_new(c.size_ctx.terminal_column),
               prev_pos |-> 0, overflow |-> 0, panic |-> "index"]
         ELSE render_search_lines(
                  c,
                  [w |-> render_margin(
                             Queue(ChWriter_new(c.size_ctx.terminal_column),
                                   "MoveTo", "0,0"),
                             size[2]),
                   prev_pos |-> 0, overflow |-> 0, panic |-> ""],
                  c.scroll, c.scroll + size[1])

render(c) ==
    IF c.scroll > Len(c.reflowed_lines)
    THEN [w |-> ChWriter_new(c.size_ctx.terminal_column),
          prev_pos |-> 0, overflow |-> 0, panic |-> "index"]
    ELSE render_lines(c, calculate_real_size(
                             c.size_ctx,
                             Slice(c.reflowed_lines, c.scroll, Len(c.reflowed_lines))))

\* ------------------------------------------------------------------------
\* Prompt
\* ------------------------------------------------------------------------

\* the text update_prompt formats for the current prompt_state
prompt_text(c) ==
    CASE c.prompt_state.kind = "Normal" ->
           [kind |-> "Normal",
            first |-> c.scroll + 1,
            last |-> c.scroll + c.size_ctx.terminal_line - c.prev_wrap,
            total |-> Len(c.reflowed_lines),
            at_end |-> c.scroll = max_scroll(c),
            n |-> 0, s |-> <<>>]
      [] c.prompt_state.kind = "Number" ->
           [kind |-> "Number", first |-> 0, last |-> 0, total |-> 0, at_end |-> FALSE,
            n |-> c.prompt_state.n, s |-> <<>>]
      [] c.prompt_state.kind = "Search" ->
           [kind |-> "Search", first |-> 0, last |-> 0, total |-> 0, at_end |-> FALSE,
            n |-> 0, s |-> c.prompt_state.s]

update_prompt(c) ==
    IF c.prompt_outdated
    THEN IF c.prompt_state.kind = "Normal"
            /\ c.scroll + c.size_ctx.terminal_line < c.prev_wrap
         THEN Fail(c, "overflow")
         ELSE [c EXCEPT !.prompt = prompt_text(c), !.prompt_outdated = FALSE]
    ELSE c

\* write_prompt / redraw_prompt followed by the write to the terminal: the
\* context is left as it is
write_prompt(c) == c

\* ------------------------------------------------------------------------
\* update
\* ------------------------------------------------------------------------

\* `if !self.reflowed_search_positions.is_empty() { self.reflow_search() }`
update_reflow_search(c) ==
    IF Len(c.reflowed_search_positions) > 0
    THEN reflow_search(c)
    ELSE c

\* `self.need_reflow = false`
update_reflow_done(c) ==
    IF c.panic # "" THEN c ELSE [c EXCEPT !.need_reflow = FALSE]

\* the rebuilt reflowed_lines and reflowed_lines_associations
update_reflow_store(c, r) ==
    [c EXCEPT !.reflowed_lines = r.reflowed_lines,
              !.reflowed_lines_associations = r.associations]

\* the need_reflow block
update_reflow(c) ==
    IF ~c.need_reflow THEN c
    ELSE IF c.size_ctx.terminal_column - 1 = 0
            /\ \E k \in 1..Len(c.lines) : Len(c.lines[k]) >= 1
         THEN Fail(c, "hang")
         ELSE update_reflow_done(
                  update_reflow_search(
                      update_reflow_store(c, reflow(c.lines, c.size_ctx.terminal_column))))

\* the prompt after a frame, or alone when only the prompt is outdated
update_redraw_prompt(c, redrawn) ==
    IF c.panic # "" THEN c
    ELSE IF redrawn THEN [write_prompt(c) EXCEPT !.need_redraw = FALSE]
         ELSE write_prompt(c)

update_redraw_frame(c, frame) ==
    IF frame.panic # "" THEN Fail(c, frame.panic)
    ELSE update_redraw_prompt(update_prompt([c EXCEPT !.prev_wrap = frame.w.wrap]), TRUE)

\* the need_redraw block and its else-branch
update_redraw(c) ==
    IF c.need_redraw
    THEN update_redraw_frame(c, render(c))
    ELSE IF c.prompt_outdated
         THEN update_redraw_prompt(update_prompt(c), FALSE)
         ELSE c

update_after_reflow(c) ==
    IF c.panic # "" THEN c ELSE update_redraw(c)

update(c) == update_after_reflow(update_reflow(c))

\* ------------------------------------------------------------------------
\* handle_event.  An event is a record [type, kind, key, x, y]; the result is
\* [c |-> the context afterwards, quit |-> the Ok(bool) returned].
\* ------------------------------------------------------------------------

NoKey == Key("", "", {})

MouseEvent(kind) == [type |-> "Mouse", kind |-> kind, key |-> NoKey, x |-> 0, y |-> 0]

KeyEvent(key) == [type |-> "Key", kind |-> "", key |-> key, x |-> 0, y |-> 0]

ResizeEvent(x, y) == [type |-> "Resize", kind |-> "", key |-> NoKey, x |-> x, y |-> y]

Handled(c, quit) == [c |-> c, quit |-> quit]

\* PromptState::take
take(c) == [c EXCEPT !.prompt_state = PromptNormal]

\* the pending numeric prefix read by Up/Down
taken_count(c) == IF c.prompt_state.kind = "Number" THEN c.prompt_state.n ELSE 1

\* `match self.keymap.get(&ke)`
dispatch(c, ke) ==
    LET b == keymap_get(ke) IN
    CASE b.kind = "NormalMode" ->
           Handled([search(take(c), <<>>) EXCEPT !.prompt_outdated = TRUE], FALSE)
      [] b.kind = "Search" ->
           Handled([c EXCEPT !.prompt_state = PromptSearch(<<>>),
                             !.prompt_outdated = TRUE], FALSE)
      [] b.kind = "SearchNext" -> Handled(move_search(c, TRUE), FALSE)
      [] b.kind = "SearchPrev" -> Handled(move_search(c, FALSE), FALSE)
      [] b.kind = "Number" ->
           Handled([c EXCEPT
                      !.prompt_state =
                          IF c.prompt_state.kind = "Number"
                          THEN PromptNumber(c.prompt_state.n * 10 + b.n)
                          ELSE PromptNumber(b.n),
                      !.prompt_outdated = TRUE], FALSE)
      [] b.kind = "Up" ->
           Handled(scroll_up(take(c),
                       wrapping_mul(calculate(b.size, c.size_ctx.terminal_line),
                                    taken_count(c))), FALSE)
      [] b.kind = "Down" ->
           Handled(scroll_down(take(c),
                       wrapping_mul(calculate(b.size, c.size_ctx.terminal_line),
                                    taken_count(c))), FALSE)
      [] b.kind = "Quit" -> Handled(c, TRUE)
      [] OTHER -> Handled(c, FALSE)

\* search_input_takes changed to leave the keys the key map binds to the map
search_input_takes_unbound(c, ke) ==
    /\ c.prompt_state.kind = "Search"
    /\ ke.modifiers \cap {"CONTROL", "ALT"} = {}
    /\ ke.code \in {"Char", "Backspace", "Enter"}
    /\ keymap_get(ke).kind \notin {"Quit", "Down", "Search", "Number"}

\* the keys the Search prompt takes before the key map is consulted
search_input_takes(c, ke) ==
    /\ c.prompt_state.kind = "Search"
    /\ ke.modifiers \cap {"CONTROL", "ALT"} = {}
    /\ ke.code \in {"Char", "Backspace", "Enter"}

search_input(c, ke) ==
    LET s == c.prompt_state.s IN
    CASE ke.code = "Char" ->
           [c EXCEPT !.prompt_state = PromptSearch(Append(s, ke.c)),
                     !.prompt_outdated = TRUE]
      [] ke.code = "Backspace" ->
           [c EXCEPT !.prompt_state = IF Len(s) = 0 THEN PromptNormal
                                      ELSE PromptSearch(Slice(s, 0, Len(s) - 1)),
                     !.prompt_outdated = TRUE]
      [] ke.code = "Enter" ->
           LET c1 == search([c EXCEPT !.prompt_state = PromptSearch(<<>>)], s) IN
           IF c1.panic # "" THEN c1
           ELSE [c1 EXCEPT !.prompt_state = PromptNormal, !.prompt_outdated = TRUE]

handle_event(c, event) ==
    CASE event.type = "Mouse" /\ event.kind = "ScrollUp" ->
           Handled(IF c.prompt_state = PromptNormal THEN scroll_up(c, 1) ELSE c, FALSE)
      [] event.type = "Mouse" /\ event.kind = "ScrollDown" ->
           Handled(IF c.prompt_state = PromptNormal THEN scroll_down(c, 1) ELSE c, FALSE)
      [] event.type = "Key" ->
           IF search_input_takes(c, event.key)
           THEN Handled(search_input(c, event.key), FALSE)
           ELSE dispatch(c, event.key)
      [] event.type = "Resize" ->
           Handled([c EXCEPT !.size_ctx = resize(event.x, event.y),
                             !.need_reflow = TRUE,
                             !.need_redraw = TRUE,
                             !.prompt_outdated = TRUE], FALSE)
      [] OTHER -> Handled(c, FALSE)

\* drop changed to leave raw mode before the other modes are reverted
drop_raw_first(c, n, ok) ==
    [c EXCEPT !.output =
        execute(disable_raw_mode(@, ok),
                <<"Show", "EnableLineWrap", "DisableMouseCapture",
                  "LeaveAlternateScreen">>, n)]

\* Drop for UiContext: n commands of the execute! take effect, and
\* disable_raw_mode succeeds or not; both results are discarded
drop(c, n, ok) ==
    [c EXCEPT !.output =
        disable_raw_mode(execute(@, <<"Show", "EnableLineWrap",
                                      "DisableMouseCapture",
                                      "LeaveAlternateScreen">>, n), ok)]

\* ------------------------------------------------------------------------
\* The run() loop, the producer and the run flag
\* ------------------------------------------------------------------------

VARIABLES
    ui,          \* the UiContext
    rx,          \* the lines waiting in the queue, oldest first
    accepted,    \* every line the queue has accepted, in acceptance order
    RUN,         \* crate::RUN
    pc,          \* where run() stands
    line_count   \* the local line_count of run()

vars == <<ui, rx, accepted, RUN, pc, line_count>>

\* terminal sizes (columns, rows) the model starts with and resizes to
Columns == {3, 5}

Rows == {2, 3}

\* the lines the producer sends
InputLines ==
    { PlainLine(<<>>),
      PlainLine(<<"a", "b", "a", "b">>) }

\* the keys the modelled user presses while lines arrive
InputKeys ==
    { Char("j"), Char("k"), Shift("G"), Char("q"), Named("F1") }

InputEvents ==
    {MouseEvent(k) : k \in {"ScrollUp", "ScrollDown", "Moved"}}
    \cup {KeyEvent(k) : k \in InputKeys}
    \cup {ResizeEvent(x, y) : x \in Columns, y \in Rows}

\* the bounds on what the modelled user types
WithinBounds(c, event) ==
    IF event.type # "Key" THEN TRUE
    ELSE IF search_input_takes(c, event.key)
         THEN event.key.code = "Char" => Len(c.prompt_state.s) < MaxNeedle
         ELSE keymap_get(event.key).kind = "Number" =>
                  (IF c.prompt_state.kind = "Number"
                   THEN c.prompt_state.n * 10 + keymap_get(event.key).n
                   ELSE keymap_get(event.key).n) <= MaxPrefix

Init ==
    /\ \E x \in Columns, y \in Rows : ui = UiContext_new(x, y)
    /\ rx = <<>>
    /\ accepted = <<>>
    /\ RUN = TRUE
    /\ pc = "check"
    /\ line_count = 0

\* the producer thread: ArrayQueue::push succeeds while the queue is not full
Push(line) ==
    /\ Len(accepted) < MaxLines
    /\ Len(rx) < QueueCap
    /\ rx' = Append(rx, line)
    /\ accepted' = Append(accepted, line)
    /\ UNCHANGED <<ui, RUN, pc, line_count>>

\* something outside the loop clears the run flag
ClearRun ==
    /\ RUN
    /\ RUN' = FALSE
    /\ UNCHANGED <<ui, rx, accepted, pc, line_count>>

\* `if !crate::RUN.load(Ordering::Acquire) { return Ok(()) }`
CheckRun ==
    /\ pc = "check"
    /\ pc' = IF RUN THEN "poll" ELSE "returned"
    /\ UNCHANGED <<ui, rx, accepted, RUN, line_count>>

\* poll() reports an event; read() and handle_event(e)
HandleEvent(event) ==
    /\ pc = "poll"
    /\ WithinBounds(ui, event)
    /\ LET h == handle_event(ui, event) IN
       /\ ui' = h.c
       /\ pc' = IF h.c.panic # "" THEN "panicked"
                ELSE IF h.quit THEN "returned"
                ELSE "poll"
    /\ UNCHANGED <<rx, accepted, RUN, line_count>>

\* poll() reports no event: the while loop ends, `let mut line_count = 0`
PollEmpty ==
    /\ pc = "poll"
    /\ pc' = "pop"
    /\ line_count' = 0
    /\ UNCHANGED <<ui, rx, accepted, RUN>>

\* one iteration of `while let Some(line) = self.rx.pop()`
PopLine ==
    /\ pc = "pop"
    /\ Len(rx) > 0
    /\ ui' = push_line(ui, Head(rx))
    /\ rx' = Tail(rx)
    /\ line_count' = line_count + 1
    /\ pc' = IF line_count + 1 >= BULK_LINE THEN "update" ELSE "pop"
    /\ UNCHANGED <<accepted, RUN>>

\* rx.pop() returns None
PopEmpty ==
    /\ pc = "pop"
    /\ Len(rx) = 0
    /\ pc' = "update"
    /\ UNCHANGED <<ui, rx, accepted, RUN, line_count>>

\* self.update()?
Update ==
    /\ pc = "update"
    /\ ui' = update(ui)
    /\ pc' = IF ui'.panic # "" THEN "panicked" ELSE "sleep"
    /\ UNCHANGED <<rx, accepted, RUN, line_count>>

\* the sleep for the rest of the tick; the locals of the iteration end
Sleep ==
    /\ pc = "sleep"
    /\ pc' = "check"
    /\ line_count' = 0
    /\ UNCHANGED <<ui, rx, accepted, RUN>>

Next ==
    \/ \E line \in InputLines : Push(line)
    \/ ClearRun
    \/ CheckRun
    \/ \E event \in InputEvents : HandleEvent(event)
    \/ PollEmpty
    \/ PopLine
    \/ PopEmpty
    \/ Update
    \/ Sleep

Spec == Init /\ [][Next]_vars

\* The thread of run() keeps taking its next step, and poll() reports no
\* event after finitely many events of a tick.  Nothing is assumed of the
\* producer, of the user or of whoever clears the run flag.
\* Update is enabled exactly when pc = "update" and every Update step leaves
\* that position, so WF_vars(Update) says that run() does not stand at
\* "update" for ever; it is written in that form, []<>(pc # "update").
LoopFairness ==
    /\ WF_vars(CheckRun)
    /\ WF_vars(PollEmpty)
    /\ WF_vars(PopLine)
    /\ WF_vars(PopEmpty)
    /\ []<>(pc # "update")
    /\ WF_vars(Sleep)

\* The same loop with fewer inputs, for the properties of progress: a
\* terminal of 3 columns and 2 rows, the End key, the quit key and one resize.
LiveEvents ==
    { KeyEvent(Shift("G")), KeyEvent(Char("q")), ResizeEvent(5, 2) }

LiveInit ==
    /\ ui = UiContext_new(3, 2)
    /\ rx = <<>>
    /\ accepted = <<>>
    /\ RUN = TRUE
    /\ pc = "check"
    /\ line_count = 0

LiveNext ==
    \/ \E line \in InputLines : Push(line)
    \/ ClearRun
    \/ CheckRun
    \/ \E event \in LiveEvents : HandleEvent(event)
    \/ PollEmpty
    \/ PopLine
    \/ PopEmpty
    \/ Update
    \/ Sleep

FairSpec == LiveInit /\ [][LiveNext]_vars /\ LoopFairness

\* ------------------------------------------------------------------------
\* The loop over whole documents and terminal widths: the queue holds a
\* document when run() starts and the terminal is resized while it runs.
\* ------------------------------------------------------------------------

\* column counts >= 2, so that the wrap width is at least 1
ReflowColumns == {2, 3, 4}

ReflowRows == {2, 3}

\* documents with blank lines, lines of several chunks, double-width ("W")
\* and zero-width ("z") glyphs
ReflowDocs ==
    { <<PlainLine(<<"a", "b", "c">>),
        PlainLine(<<"a", "b", "c", "a", "b", "c">>),
        PlainLine(<<>>)>>,
      <<PlainLine(<<>>), PlainLine(<<"a", "W", "z", "b", "W">>)>>,
      <<PlainLine(<<"W", "W", "a">>), PlainLine(<<>>), PlainLine(<<"z", "a">>)>>,
      <<PlainLine(<<"b">>)>> }

ReflowEvents == {ResizeEvent(x, y) : x \in ReflowColumns, y \in ReflowRows}

ReflowInit ==
    /\ \E x \in ReflowColumns, y \in ReflowRows : ui = UiContext_new(x, y)
    /\ \E doc \in ReflowDocs : rx = doc /\ accepted = doc
    /\ RUN = TRUE
    /\ pc = "check"
    /\ line_count = 0

ReflowNext ==
    \/ CheckRun
    \/ \E event \in ReflowEvents : HandleEvent(event)
    \/ PollEmpty
    \/ PopLine
    \/ PopEmpty
    \/ Update
    \/ Sleep

ReflowSpec == ReflowInit /\ [][ReflowNext]_vars

\* ------------------------------------------------------------------------
\* The loop with the search prompt: the queue holds a document when run()
\* starts; the user types a needle, confirms or leaves the prompt, jumps to
\* the next match and resizes the terminal.
\* ------------------------------------------------------------------------

\* a glyph with a foreground colour and an attribute set
Styled(g) == [ch |-> g, foreground |-> "Red", background |-> "Reset",
              attribute |-> {"Bold"}]

SearchColumns == {3, 4}

SearchRows == {2}

SearchDocs ==
    { <<PlainLine(<<"a", "a", "a", "a">>),
        PlainLine(<<"a", "b", "a", "b", "a", "b">>)>>,
      <<<<Styled("a"), Plain("b"), Styled("a")>>,
        PlainLine(<<>>),
        PlainLine(<<"b", "a", "a", "b">>)>> }

SearchKeys == { Char("/"), Char("a"), Char("b"), Named("Enter") }

\* the modelled user opens the search prompt only while no search result is
\* held, so a run confirms one non-empty needle
OneSearch(c, event) ==
    event = KeyEvent(Char("/")) => Len(c.search_positions) = 0

SearchEvents ==
    {KeyEvent(k) : k \in SearchKeys}
    \cup {ResizeEvent(x, y) : x \in SearchColumns, y \in SearchRows}

SearchInit ==
    /\ \E x \in SearchColumns, y \in SearchRows : ui = UiContext_new(x, y)
    /\ \E doc \in SearchDocs : rx = doc /\ accepted = doc
    /\ RUN = TRUE
    /\ pc = "check"
    /\ line_count = 0

SearchLoop ==
    \/ CheckRun
    \/ \E event \in SearchEvents : OneSearch(ui, event) /\ HandleEvent(event)
    \/ PollEmpty
    \/ PopLine
    \/ PopEmpty
    \/ Update
    \/ Sleep

SearchSpec == SearchInit /\ [][SearchLoop]_vars

\* ------------------------------------------------------------------------
\* The loop with search navigation: the queue holds a short document when
\* run() starts; the user searches, clears the search with Esc, and walks
\* the matches with n and Shift-N.  The terminal is not resized.
\* ------------------------------------------------------------------------

NavColumns == {3}

NavRows == {2, 3}

NavDocs ==
    { <<PlainLine(<<"a", "b", "a", "b">>), PlainLine(<<"b", "b", "a", "b">>)>>,
      <<PlainLine(<<"b", "b", "a", "b">>), PlainLine(<<"b", "b">>)>> }

NavKeys ==
    { Char("/"), Char("a"), Named("Enter"), Named("Esc"),
      Char("n"), Shift("N"), Char("j") }

NavEvents == {KeyEvent(k) : k \in NavKeys}

\* at the search prompt the modelled user types the needle "a" only
NavTyping(c, event) ==
    (c.prompt_state.kind = "Search" /\ event.key.code = "Char") =>
        (event.key = Char("a") /\ c.prompt_state.s = <<>>)

NavInit ==
    /\ \E x \in NavColumns, y \in NavRows : ui = UiContext_new(x, y)
    /\ \E doc \in NavDocs : rx = doc /\ accepted = doc
    /\ RUN = TRUE
    /\ pc = "check"
    /\ line_count = 0

NavLoop ==
    \/ CheckRun
    \/ \E event \in NavEvents : NavTyping(ui, event) /\ HandleEvent(event)
    \/ PollEmpty
    \/ PopLine
    \/ PopEmpty
    \/ Update
    \/ Sleep

NavSpec == NavInit /\ [][NavLoop]_vars

\* ------------------------------------------------------------------------
\* The loop with typing at the search prompt: the user opens the prompt and
\* types keys that the key map binds to other behaviours.
\* ------------------------------------------------------------------------

PromptColumns == {4}

PromptRows == {3}

PromptDocs ==
    { <<PlainLine(<<"q", "1", "j", "q", "1">>), PlainLine(<<"/", "q">>)>> }

PromptKeys ==
    { Char("/"), Char("q"), Char("j"), Char("1"),
      Named("Backspace"), Named("Enter"), Ctrl("c") }

PromptEvents == {KeyEvent(k) : k \in PromptKeys}

\* the modelled user opens the prompt only while no search result is held
OnePrompt(c, event) ==
    (event = KeyEvent(Char("/")) /\ c.prompt_state.kind # "Search") =>
        Len(c.search_positions) = 0

PromptInit ==
    /\ \E x \in PromptColumns, y \in PromptRows : ui = UiContext_new(x, y)
    /\ \E doc \in PromptDocs : rx = doc /\ accepted = doc
    /\ RUN = TRUE
    /\ pc = "check"
    /\ line_count = 0

PromptLoop ==
    \/ CheckRun
    \/ \E event \in PromptEvents : OnePrompt(ui, event) /\ HandleEvent(event)
    \/ PollEmpty
    \/ PopLine
    \/ PopEmpty
    \/ Update
    \/ Sleep

PromptSpec == PromptInit /\ [][PromptLoop]_vars

\* ------------------------------------------------------------------------
\* The loop with numeric prefixes: the user types digits and scroll keys.
\* A prefix may grow as far as a usize holds.
\* ------------------------------------------------------------------------

CountColumns == {3}

CountRows == {3}

CountDocs ==
    { <<PlainLine(<<"a", "b", "a", "b">>), PlainLine(<<"a", "b", "a", "b">>)>> }

CountKeys ==
    { Char("2"), Char("3"), Char("5"), Char("6"),
      Char("j"), Char("k"), Char("f"), Char("g"), Shift("G"),
      Char("d"), Char("u"), Ctrl("d"), Ctrl("u") }

CountEvents == {KeyEvent(k) : k \in CountKeys}

\* the decimal numbers whose digits start the decimal digits of n
RECURSIVE DecimalPrefixes(_)
DecimalPrefixes(n) == IF n = 0 THEN {} ELSE {n} \cup DecimalPrefixes(n \div 10)

\* the prefix a digit key leaves pending
typed_prefix(c, ke) ==
    IF c.prompt_state.kind = "Number"
    THEN c.prompt_state.n * 10 + keymap_get(ke).n
    ELSE keymap_get(ke).n

\* the modelled user types a small prefix or the digits of usize::MAX, and
\* stops before `*pn * 10 + n` overflows
WithinUsize(c, event) ==
    keymap_get(event.key).kind = "Number" =>
        typed_prefix(c, event.key) \in (0..MaxPrefix) \cup DecimalPrefixes(USIZE_MAX)

CountInit ==
    /\ \E x \in CountColumns, y \in CountRows : ui = UiContext_new(x, y)
    /\ \E doc \in CountDocs : rx = doc /\ accepted = doc
    /\ RUN = TRUE
    /\ pc = "check"
    /\ line_count = 0

\* poll() reports a key; read() and handle_event(e)
HandleCount(event) ==
    /\ pc = "poll"
    /\ WithinUsize(ui, event)
    /\ ui' = handle_event(ui, event).c
    /\ pc' = IF ui'.panic # "" THEN "panicked"
             ELSE IF handle_event(ui, event).quit THEN "returned"
             ELSE "poll"
    /\ UNCHANGED <<rx, accepted, RUN, line_count>>

CountLoop ==
    \/ CheckRun
    \/ \E event \in CountEvents : HandleCount(event)
    \/ PollEmpty
    \/ PopLine
    \/ PopEmpty
    \/ Update
    \/ Sleep

CountSpec == CountInit /\ [][CountLoop]_vars

\* ------------------------------------------------------------------------
\* The loop up to the end of the UiContext: run() returns on the quit key or
\* the cleared flag, returns an error when the terminal write of update()
\* fails, or unwinds on a panic; the owner of the context then drops it.
\* ------------------------------------------------------------------------

\* `self.output.write(&self.output_buf)?` fails: update() has done its work
\* up to the write and returns the error, which run() returns in turn
UpdateFails ==
    /\ pc = "update"
    /\ ui.need_redraw
    /\ ui' = [update(ui) EXCEPT !.need_redraw = TRUE]
    /\ pc' = IF ui'.panic # "" THEN "panicked" ELSE "failed"
    /\ UNCHANGED <<rx, accepted, RUN, line_count>>

\* the context is dropped once run() has returned or unwound
DropContext ==
    /\ pc \in {"returned", "failed", "panicked"}
    /\ \E n \in 0..4, ok \in BOOLEAN : ui' = drop(ui, n, ok)
    /\ pc' = "dropped"
    /\ UNCHANGED <<rx, accepted, RUN, line_count>>

TermNext ==
    \/ \E line \in InputLines : Push(line)
    \/ ClearRun
    \/ CheckRun
    \/ \E event \in LiveEvents : HandleEvent(event)
    \/ PollEmpty
    \/ PopLine
    \/ PopEmpty
    \/ Update
    \/ UpdateFails
    \/ Sleep
    \/ DropContext

TermSpec == LiveInit /\ [][TermNext]_vars /\ WF_vars(DropContext)

\* ------------------------------------------------------------------------
\* The loop rendering styled lines: the queue holds one line of styled
\* characters when run() starts, and update() writes it through a ChWriter.
\* ------------------------------------------------------------------------

StyleColumns == {3, 4}

StyleRows == {3}

\* characters with and without colours and attributes; the last one carries
\* Attribute::Reset
StyledChars ==
    { Plain("a"),
      Styled("a"),
      Styled("b"),
      [ch |-> "b", foreground |-> "Red", background |-> "Reset", attribute |-> {}],
      [ch |-> "W", foreground |-> "Red", background |-> "Blue",
       attribute |-> {"Reset"}] }

StyledLines == UNION {[1..n -> StyledChars] : n \in 1..MaxStyled}

StyleInit ==
    /\ \E x \in StyleColumns, y \in StyleRows : ui = UiContext_new(x, y)
    /\ \E line \in StyledLines : rx = <<line>> /\ accepted = <<line>>
    /\ RUN = TRUE
    /\ pc = "check"
    /\ line_count = 0

StyleLoop ==
    \/ CheckRun
    \/ PollEmpty
    \/ PopLine
    \/ PopEmpty
    \/ Update
    \/ Sleep

StyleSpec == StyleInit /\ [][StyleLoop]_vars

\* ------------------------------------------------------------------------
\* The loop over terminal heights: the queue holds a document with blank,
\* narrow and wide lines when run() starts; the user scrolls and the
\* terminal is resized.
\* ------------------------------------------------------------------------

SizeColumns == {2, 3}

SizeRows == {2, 3, 4}

SizeDocs ==
    { <<PlainLine(<<"a", "b", "a", "b", "a">>), PlainLine(<<"a", "b", "a", "b">>)>>,
      <<PlainLine(<<>>), PlainLine(<<"W", "W", "a">>)>>,
      <<PlainLine(<<"z", "z">>), PlainLine(<<"a", "W", "b">>)>> }

SizeEvents ==
    {KeyEvent(Char("j"))}
    \cup {ResizeEvent(x, y) : x \in SizeColumns, y \in SizeRows}

SizeInit ==
    /\ \E x \in SizeColumns, y \in SizeRows : ui = UiContext_new(x, y)
    /\ \E doc \in SizeDocs : rx = doc /\ accepted = doc
    /\ RUN = TRUE
    /\ pc = "check"
    /\ line_count = 0

SizeLoop ==
    \/ CheckRun
    \/ \E event \in SizeEvents : HandleEvent(event)
    \/ PollEmpty
    \/ PopLine
    \/ PopEmpty
    \/ Update
    \/ Sleep

SizeSpec == SizeInit /\ [][SizeLoop]_vars

\* ------------------------------------------------------------------------
\* The loop painting search matches: the queue holds a short document when
\* run() starts; the user searches for a needle of one to three characters
\* and scrolls.  The terminal is not resized.
\* ------------------------------------------------------------------------

PaintColumns == {2, 3}

PaintRows == {2, 3}

PaintDocs ==
    { <<PlainLine(<<"a", "b", "a", "b">>)>>,
      <<PlainLine(<<"a", "b", "a", "b">>), PlainLine(<<"b", "a", "b">>)>> }

\* the needle the modelled user types, whole or a prefix of it
PaintNeedle == <<"b", "a", "b">>

PaintKeys ==
    { Char("/"), Char("a"), Char("b"), Named("Enter"), Char("j"), Char("k") }

PaintEvents == {KeyEvent(k) : k \in PaintKeys}

\* the modelled user opens the search prompt once and types PaintNeedle
PaintTyping(c, event) ==
    /\ (c.prompt_state.kind = "Search" /\ event.key.code = "Char") =>
           /\ Len(c.prompt_state.s) < Len(PaintNeedle)
           /\ event.key = Char(PaintNeedle[Len(c.prompt_state.s) + 1])
    /\ (c.prompt_state.kind # "Search" /\ event.key = Char("/")) =>
           Len(c.search_positions) = 0

PaintInit ==
    /\ \E x \in PaintColumns, y \in PaintRows : ui = UiContext_new(x, y)
    /\ \E doc \in PaintDocs : rx = doc /\ accepted = doc
    /\ RUN = TRUE
    /\ pc = "check"
    /\ line_count = 0

\* poll() reports an event; read() and handle_event(e)
HandlePaint(event) ==
    /\ pc = "poll"
    /\ ui' = handle_event(ui, event).c
    /\ pc' = IF ui'.panic # "" THEN "panicked"
             ELSE IF handle_event(ui, event).quit THEN "returned"
             ELSE "poll"
    /\ UNCHANGED <<rx, accepted, RUN, line_count>>

PaintLoop ==
    \/ CheckRun
    \/ \E event \in PaintEvents : PaintTyping(ui, event) /\ HandlePaint(event)
    \/ PollEmpty
    \/ PopLine
    \/ PopEmpty
    \/ Update
    \/ Sleep

PaintSpec == PaintInit /\ [][PaintLoop]_vars

\* ------------------------------------------------------------------------
\* The loop highlighting a line whose characters may carry Attribute::Reverse
\* themselves: the queue holds one such line when run() starts and the user
\* searches for "a".
\* ------------------------------------------------------------------------

ReverseColumns == {4}

ReverseRows == {3}

\* plain characters and characters that carry Reverse natively
ReverseChars ==
    { Plain("a"),
      Plain("b"),
      [ch |-> "a", foreground |-> "Reset", background |-> "Reset",
       attribute |-> {"Reverse"}],
      [ch |-> "b", foreground |-> "Reset", background |-> "Reset",
       attribute |-> {"Bold", "Reverse"}] }

ReverseLines == UNION {[1..n -> ReverseChars] : n \in 1..MaxStyled}

ReverseKeys == { Char("/"), Char("a"), Named("Enter") }

ReverseEvents == {KeyEvent(k) : k \in ReverseKeys}

\* the modelled user opens the search prompt once and types "a"
ReverseTyping(c, event) ==
    /\ (c.prompt_state.kind = "Search" /\ event.key.code = "Char") =>
           (event.key = Char("a") /\ c.prompt_state.s = <<>>)
    /\ (c.prompt_state.kind # "Search" /\ event.key = Char("/")) =>
           Len(c.search_positions) = 0

ReverseInit ==
    /\ \E x \in ReverseColumns, y \in ReverseRows : ui = UiContext_new(x, y)
    /\ \E line \in ReverseLines : rx = <<line>> /\ accepted = <<line>>
    /\ RUN = TRUE
    /\ pc = "check"
    /\ line_count = 0

ReverseLoop ==
    \/ CheckRun
    \/ \E event \in ReverseEvents : ReverseTyping(ui, event) /\ HandleEvent(event)
    \/ PollEmpty
    \/ PopLine
    \/ PopEmpty
    \/ Update
    \/ Sleep

ReverseSpec == ReverseInit /\ [][ReverseLoop]_vars

\* ------------------------------------------------------------------------
\* The loop with a terminal shrunk to its smallest sizes: the queue holds a
\* short document when run() starts and the terminal is resized down to one
\* column and one row.
\* ------------------------------------------------------------------------

NarrowColumns == {1, 2, 3}

NarrowRows == {1, 2}

NarrowDocs ==
    { <<PlainLine(<<"a", "b", "a">>), PlainLine(<<>>)>>,
      <<PlainLine(<<>>), PlainLine(<<>>)>>,
      <<PlainLine(<<"W", "a">>)>> }

NarrowEvents == {ResizeEvent(x, y) : x \in NarrowColumns, y \in NarrowRows}

NarrowInit ==
    /\ \E x \in NarrowColumns \ {1}, y \in NarrowRows : ui = UiContext_new(x, y)
    /\ \E doc \in NarrowDocs : rx = doc /\ accepted = doc
    /\ RUN = TRUE
    /\ pc = "check"
    /\ line_count = 0

NarrowLoop ==
    \/ CheckRun
    \/ \E event \in NarrowEvents : HandleEvent(event)
    \/ PollEmpty
    \/ PopLine
    \/ PopEmpty
    \/ Update
    \/ Sleep

NarrowSpec == NarrowInit /\ [][NarrowLoop]_vars

\* ------------------------------------------------------------------------
\* Properties
\* ------------------------------------------------------------------------

IsPrefix(s, t) == Len(s) <= Len(t) /\ SubSeq(t, 1, Len(s)) = s

\* what a full rebuild of the reflow from the buffered lines gives
Rebuilt(c) == reflow(c.lines, c.size_ctx.terminal_column)

\* C1: in a tick that appended lines (line_count > 0), once update() has
\* completed the reflowed lines are the rebuild from all buffered lines and
\* the association has one entry per buffered line.
C1_ReflowedAfterPush ==
    (pc = "sleep" /\ line_count > 0) =>
        /\ Len(ui.reflowed_lines_associations) = Len(ui.lines)
        /\ ui.reflowed_lines = Rebuilt(ui).reflowed_lines
        /\ ui.reflowed_lines_associations = Rebuilt(ui).associations

\* C2: the buffered lines followed by the queue are at all times the accepted
\* lines in acceptance order; the buffered lines only ever grow at the end; a
\* tick appends at most BULK_LINE lines, never waits for a line (with the
\* queue empty its next step is the update, with nothing appended) and leaves
\* the pop loop only on an empty queue or at the cap; and while the loop
\* keeps running every accepted line is eventually buffered.
C2_QueueToBuffer ==
    /\ [](accepted = ui.lines \o rx)
    /\ [](line_count <= BULK_LINE /\ (pc = "pop" => line_count < BULK_LINE))
    /\ [][IsPrefix(ui.lines, ui.lines')]_vars
    /\ [][(pc = "pop" /\ pc' # pc) =>
            /\ pc' = "update"
            /\ \/ Len(rx) = 0 /\ ui' = ui /\ line_count' = line_count
               \/ Len(rx) > 0 /\ ui'.lines = Append(ui.lines, Head(rx))
                  /\ line_count' = BULK_LINE]_vars
    /\ \A n \in 1..MaxLines :
           (Len(accepted) >= n) ~>
               (Len(ui.lines) >= n \/ pc \in {"returned", "panicked"})

\* C2 witness: a tick stopped at the cap with a line still in the queue
C2_Witness ==
    /\ pc = "update"
    /\ line_count = BULK_LINE
    /\ Len(rx) > 0
    /\ Len(ui.lines) >= BULK_LINE

\* C3: the check that sees the flag cleared returns at once, with no event
\* handled, no line popped and no frame drawn; and once the flag is cleared
\* run() eventually returns Ok.
C3_FlagStopsLoop ==
    /\ [][(pc = "check" /\ ~RUN /\ pc' # pc) =>
            (pc' = "returned" /\ ui' = ui /\ rx' = rx)]_vars
    /\ (~RUN) ~> (pc = "returned")

\* the scroll targets and the scroll steps tried in every reachable context:
\* the small ones around the number of reflowed lines, and the largest
ScrollArgs(c) == 0..(Len(c.reflowed_lines) + 2) \cup {USIZE_MAX - 1, USIZE_MAX}

ScrollSteps(c) == 1..(Len(c.reflowed_lines) + 2) \cup {USIZE_MAX}

\* n calls of scroll_down(step)
RECURSIVE scroll_down_times(_, _, _)
scroll_down_times(c, step, n) ==
    IF n = 0 THEN c ELSE scroll_down_times(scroll_down(c, step), step, n - 1)

\* C4: in every context in which run() handles an event, goto_scroll(x)
\* leaves scroll = min(x, max_scroll), within [0, max_scroll]; scroll_down by
\* a step >= 1 never passes max_scroll, moves forward while below it, stays
\* at it once there, and max_scroll + 1 calls have reached it; scroll_up
\* leaves min(scroll - step or 0, max_scroll), never below 0.
C4_ScrollClamp ==
    pc = "poll" =>
        /\ \A x \in ScrollArgs(ui) :
               LET c == goto_scroll(ui, x) IN
               /\ c.scroll = Min(x, max_scroll(ui))
               /\ 0 <= c.scroll /\ c.scroll <= max_scroll(c)
        /\ \A k \in ScrollSteps(ui) :
               LET d == scroll_down(ui, k)
                   u == scroll_up(ui, k)
                   t == scroll_down_times(ui, k, max_scroll(ui) + 1)
               IN /\ d.scroll <= max_scroll(d)
                  /\ ui.scroll >= max_scroll(ui) => d.scroll = max_scroll(ui)
                  /\ ui.scroll < max_scroll(ui) => d.scroll > ui.scroll
                  /\ t.scroll = max_scroll(ui)
                  /\ scroll_down(t, k).scroll = max_scroll(ui)
                  /\ 0 <= u.scroll
                  /\ u.scroll = Min(IF ui.scroll > k THEN ui.scroll - k ELSE 0,
                                    max_scroll(ui))

\* C4 witness: scrolling down has just brought scroll to max_scroll >= 2
C4_Witness ==
    /\ pc = "poll"
    /\ ui.need_redraw
    /\ ui.scroll = max_scroll(ui)
    /\ ui.scroll >= 2

\* C5: whenever update() renders a frame (after its reflow block), scroll is
\* at most max_scroll and at most the number of reflowed lines.
C5_ScrollInRangeAtRender ==
    pc = "update" =>
        LET c == update_reflow(ui) IN
        (c.panic = "" /\ c.need_redraw) =>
            /\ 0 <= c.scroll
            /\ c.scroll <= max_scroll(c)
            /\ c.scroll <= Len(c.reflowed_lines)

\* the concatenation of a sequence of sequences
RECURSIVE Flatten(_)
Flatten(seqs) ==
    IF Len(seqs) = 0 THEN <<>> ELSE Head(seqs) \o Flatten(Tail(seqs))

\* the association lists, in logical line order, enumerate the reflowed lines
\* and none of them is empty
AssociationCovers(c) ==
    /\ Flatten(c.reflowed_lines_associations)
           = [k \in 1..Len(c.reflowed_lines) |-> k - 1]
    /\ \A L \in 1..Len(c.reflowed_lines_associations) :
           Len(c.reflowed_lines_associations[L]) >= 1

\* C6: at all times the association lists concatenated in logical line order
\* are 0, 1, ..., reflowed_lines.len() - 1 and none is empty; and the update
\* that rebuilds the reflow leaves one list for every buffered line.
C6_AssociationCoversReflow ==
    /\ [](AssociationCovers(ui))
    /\ [][(pc = "update" /\ ui.need_reflow /\ ui'.panic = "") =>
            /\ ~ui'.need_reflow
            /\ Len(ui'.reflowed_lines_associations) = Len(ui'.lines)
            /\ AssociationCovers(ui')]_vars

\* C6 witness: a rebuild has reflowed three lines, one of them blank and one
\* of them into several chunks
C6_Witness ==
    /\ pc = "sleep"
    /\ ~ui.need_reflow
    /\ Len(ui.reflowed_lines_associations) = 3
    /\ \E L \in 1..3 : Len(ui.lines[L]) = 0
    /\ \E L \in 1..3 : Len(ui.reflowed_lines_associations[L]) >= 2

\* the reflowed chunks of logical line L (1-based), in association order
ChunksOf(c, L) ==
    [k \in 1..Len(c.reflowed_lines_associations[L]) |->
        At(c.reflowed_lines, c.reflowed_lines_associations[L][k])]

ExampleLines ==
    <<PlainLine(<<"a", "b", "c">>),
      PlainLine(<<"a", "b", "c", "a", "b", "c">>),
      PlainLine(<<>>)>>

\* C7: once the reflow is rebuilt for the current column count (>= 2), the
\* chunks of every reflowed logical line concatenate to the line; every chunk
\* but the last has columns - 1 characters and the last has 1 to columns - 1;
\* a zero-length line has exactly one zero-length chunk; and "abc", "abcabc",
\* "" at 4 columns give 4 reflowed lines associated [[0],[1,2],[3]].
C7_ChunksRebuildLine ==
    (~ui.need_reflow /\ ui.size_ctx.terminal_column >= 2) =>
        LET w == ui.size_ctx.terminal_column - 1 IN
        /\ \A L \in 1..Len(ui.reflowed_lines_associations) :
               LET chunks == ChunksOf(ui, L)
                   n == Len(chunks)
               IN /\ Flatten(chunks) = ui.lines[L]
                  /\ n >= 1
                  /\ \A k \in 1..(n - 1) : Len(chunks[k]) = w
                  /\ Len(ui.lines[L]) > 0 =>
                         (1 <= Len(chunks[n]) /\ Len(chunks[n]) <= w)
                  /\ Len(ui.lines[L]) = 0 => (n = 1 /\ Len(chunks[1]) = 0)
        /\ (ui.lines = ExampleLines /\ w = 3
               /\ Len(ui.reflowed_lines_associations) = 3) =>
               /\ Len(ui.reflowed_lines) = 4
               /\ ui.reflowed_lines_associations = <<<<0>>, <<1, 2>>, <<3>>>>

\* C7 witness: the example document reflowed at 4 columns
C7_Witness ==
    /\ ~ui.need_reflow
    /\ ui.size_ctx.terminal_column = 4
    /\ ui.lines = ExampleLines
    /\ Len(ui.reflowed_lines_associations) = 3
    /\ Len(ui.reflowed_lines) = 4

\* C8: once the reflow is rebuilt for the current column count (>= 2), every
\* reflowed line is at most columns - 1 display columns wide.
C8_ReflowedWidthBounded ==
    (~ui.need_reflow /\ ui.size_ctx.terminal_column >= 2) =>
        \A r \in 1..Len(ui.reflowed_lines) :
            line_width(ui.reflowed_lines[r]) <= ui.size_ctx.terminal_column - 1

\* the non-empty needles of up to MaxNeedle glyphs
Needles ==
    UNION {[1..n -> {"a", "b"}] : n \in 1..MaxNeedle}

\* the 0-based starts of all glyph-level occurrences of needle in line
Occurrences(line, needle) ==
    {s \in 0..(Len(line) - Len(needle)) :
        \A j \in 1..Len(needle) : line[s + j].ch = needle[j]}

\* the greedy left-to-right selection from the starts occ that are >= from:
\* the least such start is accepted, and the selection goes on n later
RECURSIVE Greedy(_, _, _)
Greedy(occ, from, n) ==
    LET rest == {s \in occ : s >= from} IN
    IF rest = {} THEN <<>>
    ELSE LET s == CHOOSE x \in rest : \A y \in rest : x <= y
         IN <<s>> \o Greedy(occ, s + n, n)

SearchPositionsGreedy(c, lines, needle) ==
    /\ Len(c.search_positions) = Len(lines)
    /\ c.search_char_len = Len(needle)
    /\ \A L \in 1..Len(lines) :
           LET found == c.search_positions[L] IN
           /\ found = Greedy(Occurrences(lines[L], needle), 0, Len(needle))
           /\ \A k \in 1..(Len(found) - 1) : found[k + 1] >= found[k] + Len(needle)
           /\ (glyphs_of(lines[L]) = <<"a", "a", "a", "a">> /\ needle = <<"a", "a">>)
                  => found = <<0, 2>>
           /\ (glyphs_of(lines[L]) = <<"a", "b", "a", "b", "a", "b">>
                  /\ needle = <<"a", "b">>) => found = <<0, 2, 4>>

\* C9: when Enter confirms a non-empty needle in the search prompt, and when
\* search(needle) is called with any non-empty needle in any reachable
\* context, the Search Positions of every buffered line are afterwards the
\* greedy left-to-right non-overlapping selection from all glyph-level
\* occurrence starts of the needle in that line, styling ignored.
C9_SearchPositionsGreedy ==
    /\ [](\A needle \in Needles :
              LET c == search(ui, needle) IN
              c.panic = "" => SearchPositionsGreedy(c, ui.lines, needle))
    /\ [][(pc = "poll" /\ ui.prompt_state.kind = "Search"
              /\ Len(ui.prompt_state.s) > 0
              /\ ui'.prompt_state.kind = "Normal" /\ ui'.panic = "") =>
            SearchPositionsGreedy(ui', ui.lines, ui.prompt_state.s)]_vars

\* C9 witness: a confirmed search has dropped an overlapping occurrence: a
\* line holds accepted starts 0 and 2 of a 2-glyph needle that also occurs
\* at 1
C9_Witness ==
    /\ ui.panic = ""
    /\ ui.search_char_len = 2
    /\ \E L \in 1..Len(ui.search_positions) :
           /\ ui.search_positions[L] = <<0, 2>>
           /\ glyphs_of(ui.lines[L]) = <<"a", "a", "a", "a">>

\* the accepted matches <<L, s>> (L 1-based) of the lines reflow_search reads
AcceptedMatches(c) ==
    UNION {{<<L, c.search_positions[L][k]>> : k \in 1..Len(c.search_positions[L])} :
              L \in 1..Len(c.search_positions)}

\* the remapped offsets <<r, k>>: the k-th entry of reflowed line r (1-based)
RemappedOffsets(c) ==
    UNION {{<<r, k>> : k \in 1..Len(c.reflowed_search_positions[r])} :
              r \in 1..Len(c.reflowed_search_positions)}

\* the remap of context c (after reflow_search) at wrap width w is exact
RemapExact(c, w) ==
    /\ c.panic = ""
    /\ Len(c.reflowed_search_positions) = Len(c.reflowed_lines)
    /\ \A m \in AcceptedMatches(c) :
           /\ m[1] <= Len(c.reflowed_lines_associations)
           /\ (m[2] \div w) < Len(c.reflowed_lines_associations[m[1]])
           /\ LET r == At(c.reflowed_lines_associations[m[1]], m[2] \div w) + 1 IN
              /\ \E k \in 1..Len(c.reflowed_search_positions[r]) :
                     c.reflowed_search_positions[r][k] = m[2] % w
              /\ At(c.reflowed_lines[r], m[2] % w).ch = At(c.lines[m[1]], m[2]).ch
    /\ \A o \in RemappedOffsets(c) :
           \E m \in AcceptedMatches(c) :
               /\ m[1] <= Len(c.reflowed_lines_associations)
               /\ (m[2] \div w) < Len(c.reflowed_lines_associations[m[1]])
               /\ At(c.reflowed_lines_associations[m[1]], m[2] \div w) + 1 = o[1]
               /\ c.reflowed_search_positions[o[1]][o[2]] = m[2] % w
    /\ Cardinality(RemappedOffsets(c)) = Cardinality(AcceptedMatches(c))
    /\ reflow_search(c).reflowed_search_positions = c.reflowed_search_positions

\* C10: in every reachable context whose reflow was built with the current
\* wrap width w = columns - 1, reflow_search leaves one entry per reflowed
\* line; every accepted match start s of logical line L is stored as s mod w
\* in reflowed line association[L][s div w] and nowhere else, as many offsets
\* as accepted matches, on the same glyph; and a second remap changes nothing.
C10_RemapExact ==
    (~ui.need_reflow /\ ui.panic = "" /\ ui.size_ctx.terminal_column >= 2) =>
        RemapExact(reflow_search(ui), ui.size_ctx.terminal_column - 1)

\* the reflowed line indexes that hold at least one match offset
MatchLines(c) ==
    {i \in 0..(Len(c.reflowed_search_positions) - 1) :
        Len(At(c.reflowed_search_positions, i)) > 0}

\* some logical or reflowed line holds a match offset
HasMatchState(c) ==
    \/ \E k \in 1..Len(c.search_positions) : Len(c.search_positions[k]) > 0
    \/ MatchLines(c) # {}

\* the Esc key in a context c
AfterEsc(c) == handle_event(c, KeyEvent(Named("Esc"))).c

\* no match state is left in c and SearchNext/SearchPrev leave the scroll
MatchStateCleared(c) ==
    /\ ~HasMatchState(c)
    /\ move_search(c, TRUE).scroll = c.scroll
    /\ move_search(c, FALSE).scroll = c.scroll

\* C11: whenever the loop can handle an event, a search for the empty needle
\* (called directly, or through the Esc key) leaves no match offset in any
\* logical or reflowed line, leaves SearchNext and SearchPrev unable to move
\* the scroll, and requests a redraw if match state existed before.
C11_EmptyNeedleClearsMatches ==
    pc = "poll" =>
        /\ MatchStateCleared(search(ui, <<>>))
        /\ MatchStateCleared(AfterEsc(ui))
        /\ (HasMatchState(ui) => AfterEsc(ui).need_redraw)

\* how many lines forward, wrapping at n, the line `to` lies from `from`
CircularDistance(from, to, n) == (to - from + n) % n

\* the line of S reached first going forward from `from` and wrapping
FirstForward(S, from, n) ==
    CHOOSE i \in S : \A j \in S :
        CircularDistance(from, i, n) <= CircularDistance(from, j, n)

\* the step on which Enter commits the non-empty needle typed at the prompt
CommitsNeedle ==
    /\ pc = "poll"
    /\ ui.prompt_state.kind = "Search"
    /\ Len(ui.prompt_state.s) > 0
    /\ ui'.prompt_state = PromptNormal
    /\ ui'.search_char_len = Len(ui.prompt_state.s)
    /\ ui'.panic = ""

\* C12 as stated: committing a non-empty needle sets the scroll to the index
\* of the first reflowed line with a match, going forward from the current
\* scroll (the current line first) and wrapping; without a match the scroll
\* is unchanged.
C12_SearchJumpsToFirstMatch ==
    [][CommitsNeedle =>
          ui'.scroll = IF MatchLines(ui') = {} THEN ui.scroll
                       ELSE FirstForward(MatchLines(ui'), ui.scroll,
                                         Len(ui'.reflowed_search_positions))]_vars

\* C12 amended: committing a non-empty needle sets the scroll to the index,
\* clamped to max_scroll, of the first reflowed line with a match strictly
\* after the current scroll, wrapping to the lines before it; the current
\* line is not a candidate, and with no match on another line the scroll is
\* unchanged.
C12_SearchJumpsToNextMatch ==
    [][CommitsNeedle =>
          ui'.scroll = IF MatchLines(ui') \ {ui.scroll} = {} THEN ui.scroll
                       ELSE Min(FirstForward(MatchLines(ui') \ {ui.scroll},
                                             ui.scroll,
                                             Len(ui'.reflowed_search_positions)),
                                max_scroll(ui'))]_vars

\* C12 witness: a committed search has moved the scroll past a matching line
\* it started on and stopped at max_scroll, short of the matching line
C12_Witness ==
    /\ pc = "poll"
    /\ ui.prompt_state = PromptNormal
    /\ ui.search_char_len > 0
    /\ ui.scroll = max_scroll(ui)
    /\ ui.scroll \notin MatchLines(ui)
    /\ 0 \in MatchLines(ui)
    /\ \E i \in MatchLines(ui) : i > ui.scroll

\* the context after the n key has been pressed k times
RECURSIVE search_next_times(_, _)
search_next_times(c, k) ==
    IF k = 0 THEN c
    ELSE search_next_times(handle_event(c, KeyEvent(Char("n"))).c, k - 1)

\* C13 (its consequence): with an active search and the prompt in Normal
\* mode, pressing SearchNext repeatedly brings the scroll to every reflowed
\* line that holds a match and that the scroll can reach (index at most
\* max_scroll), within as many presses as there are reflowed lines.
C13_SearchNextCycles ==
    (/\ pc = "poll"
     /\ ui.prompt_state = PromptNormal
     /\ ui.search_char_len > 0
     /\ ui.scroll <= max_scroll(ui)) =>
        \A i \in MatchLines(ui) :
            i <= max_scroll(ui) =>
                \E k \in 0..Len(ui.reflowed_search_positions) :
                    search_next_times(ui, k).scroll = i

\* the modelled keys pressed with neither Control nor Alt held
TypedKeys == {ke \in PromptKeys : ke.modifiers \cap {"CONTROL", "ALT"} = {}}

\* what the spec says a key does at the search prompt holding the buffer s
TypedInto(c, s, ke) ==
    CASE ke.code = "Char" ->
           [c EXCEPT !.prompt_state = PromptSearch(s \o <<ke.c>>),
                     !.prompt_outdated = TRUE]
      [] ke.code = "Backspace" ->
           [c EXCEPT !.prompt_state = IF s = <<>> THEN PromptNormal
                                      ELSE PromptSearch(SubSeq(s, 1, Len(s) - 1)),
                     !.prompt_outdated = TRUE]
      [] ke.code = "Enter" ->
           [search(c, s) EXCEPT !.prompt_state = PromptNormal,
                                !.prompt_outdated = TRUE]

\* C14: while the prompt is in Search mode, a character key, Backspace or
\* Enter pressed without Control or Alt never ends the loop and changes the
\* context exactly as typing does: the character is appended and the mode
\* stays Search; Backspace drops the last character or, on an empty buffer,
\* returns to Normal; Enter runs search on the buffer and returns to Normal;
\* the prompt is marked outdated, and nothing a bound behaviour would do
\* (scroll, numeric prefix, reopening the prompt) happens.
C14_SearchInputTakesKeys ==
    (pc = "poll" /\ ui.prompt_state.kind = "Search") =>
        \A ke \in TypedKeys :
            /\ ~handle_event(ui, KeyEvent(ke)).quit
            /\ handle_event(ui, KeyEvent(ke)).c = TypedInto(ui, ui.prompt_state.s, ke)
            /\ handle_event(ui, KeyEvent(ke)).c.prompt_outdated

\* C14 witness: the keys q and / have been typed into the buffer after the
\* document was scrolled, and the loop still runs
C14_Witness ==
    /\ pc = "poll"
    /\ ui.prompt_state = PromptSearch(<<"q", "/">>)
    /\ ui.scroll > 0

\* the prefix pending in c, 1 when there is none
PendingCount(c) == IF c.prompt_state.kind = "Number" THEN c.prompt_state.n ELSE 1

\* the scroll the spec gives a Down or Up behaviour b with the count n
ScrolledTo(c, b, n) ==
    CASE b.kind = "Down" /\ b.size = "End" ->
           IF n >= 1 THEN max_scroll(c) ELSE c.scroll
      [] b.kind = "Up" /\ b.size = "End" ->
           IF n >= 1 THEN 0 ELSE c.scroll
      [] b.kind = "Down" /\ b.size # "End" ->
           Min(c.scroll + calculate(b.size, c.size_ctx.terminal_line) * n,
               max_scroll(c))
      [] b.kind = "Up" /\ b.size # "End" ->
           saturating_sub(c.scroll, calculate(b.size, c.size_ctx.terminal_line) * n)

\* what the spec says the key ke does outside the search prompt
CountedKey(c, ke) ==
    LET b == keymap_get(ke) IN
    IF b.kind = "Number"
    THEN handle_event(c, KeyEvent(ke)).c.prompt_state =
             PromptNumber(IF c.prompt_state.kind = "Number"
                          THEN c.prompt_state.n * 10 + b.n ELSE b.n)
    ELSE /\ handle_event(c, KeyEvent(ke)).c.prompt_state = PromptNormal
         /\ handle_event(c, KeyEvent(ke)).c.scroll = ScrolledTo(c, b, PendingCount(c))

\* C15: outside the search prompt a digit key starts or extends the decimal
\* prefix n; a Down or Up key scrolls by its size times n rows (n = 1 without
\* a prefix), clamped to 0..max_scroll, and leaves the prompt in Normal mode;
\* Down(End) and Up(End) with a prefix n >= 1 reach max_scroll and 0.
C15_PrefixScroll ==
    (pc = "poll" /\ ui.prompt_state.kind # "Search") =>
        \A ke \in CountKeys :
            (/\ keymap_get(ke).kind \in {"Number", "Down", "Up"}
             /\ WithinUsize(ui, KeyEvent(ke))) => CountedKey(ui, ke)

\* the state a completed update leaves after a resize: the reflow is the wrap
\* of every buffered line at the current width and no flag is left set
ResizeServed(c) ==
    /\ c.panic = ""
    /\ c.reflowed_lines = Rebuilt(c).reflowed_lines
    /\ c.reflowed_lines_associations = Rebuilt(c).associations
    /\ ~c.need_reflow
    /\ ~c.need_redraw
    /\ ~c.prompt_outdated

\* C16: need_reflow is set together with need_redraw and prompt_outdated (by
\* a Resize event, or by the constructor), stays set until update() runs, and
\* the update() that finds it set (the step that leaves pc = "update")
\* completes with the reflowed lines rebuilt
\* from all buffered lines at the width of the Size Context, the frame drawn
\* and the three flags cleared.
C16_ResizeReflowsAndRedraws ==
    /\ [](ui.need_reflow => (ui.need_redraw /\ ui.prompt_outdated) \/ ui.panic # "")
    /\ [][(pc # "update" /\ ui.need_reflow) => ui'.need_reflow]_vars
    /\ [][(pc = "update" /\ pc' # pc /\ ui.need_reflow) => ResizeServed(ui')]_vars

\* (holds when update returns) the same with a panicking update() set aside
ResizeServedOnReturn ==
    /\ [](ui.need_reflow => (ui.need_redraw /\ ui.prompt_outdated) \/ ui.panic # "")
    /\ [][(pc # "update" /\ ui.need_reflow) => ui'.need_reflow]_vars
    /\ [][(pc = "update" /\ pc' # pc /\ ui.need_reflow /\ ui'.panic = "") =>
            ResizeServed(ui')]_vars

\* C17: outside the search prompt Ctrl-d does what d does (scroll down half a
\* page) and Ctrl-u does what u does (scroll up half a page), and neither
\* ends the event loop.
C17_CtrlDScrollsHalfPage ==
    (pc = "poll" /\ ui.prompt_state.kind # "Search") =>
        /\ keymap_get(Char("d")) = Down("HalfPage")
        /\ keymap_get(Char("u")) = Up("HalfPage")
        /\ handle_event(ui, KeyEvent(Ctrl("u"))) = handle_event(ui, KeyEvent(Char("u")))
        /\ ~handle_event(ui, KeyEvent(Ctrl("u"))).quit
        /\ handle_event(ui, KeyEvent(Ctrl("d"))) = handle_event(ui, KeyEvent(Char("d")))
        /\ ~handle_event(ui, KeyEvent(Ctrl("d"))).quit

\* the order in which the spec enables the terminal modes on start
StartOrder ==
    <<"EnableRawMode", "EnterAlternateScreen", "EnableMouseCapture",
      "DisableLineWrap", "Hide">>

\* the command that reverts a mode command
Undo(cmd) ==
    CASE cmd = "EnableRawMode" -> "DisableRawMode"
      [] cmd = "EnterAlternateScreen" -> "LeaveAlternateScreen"
      [] cmd = "EnableMouseCapture" -> "DisableMouseCapture"
      [] cmd = "DisableLineWrap" -> "EnableLineWrap"
      [] cmd = "Hide" -> "Show"

\* the reverting commands in the opposite order
StopOrder == [i \in 1..Len(StartOrder) |-> Undo(StartOrder[Len(StartOrder) + 1 - i])]

\* where a reverting command stands in StopOrder
StopRank(cmd) == CHOOSE k \in 1..Len(StopOrder) : StopOrder[k] = cmd

\* the commands the terminal received after the start
Teardown(t) == SubSeq(t.sent, Len(StartOrder) + 1, Len(t.sent))

\* a dropped context's terminal: reverted in the opposite order; when a
\* command failed, those that took effect still came in that order
TornDown(t) ==
    /\ SubSeq(t.sent, 1, Len(StartOrder)) = StartOrder
    /\ ~t.failed => Teardown(t) = StopOrder
    /\ \A i \in 1..Len(Teardown(t)) :
           /\ \E k \in 1..Len(StopOrder) : StopOrder[k] = Teardown(t)[i]
           /\ \A j \in 1..(i - 1) : StopRank(Teardown(t)[j]) < StopRank(Teardown(t)[i])

\* C18: while the controller runs the terminal has received exactly the
\* start commands raw mode, alternate screen, mouse capture, line wrap off,
\* cursor hidden, in this order; however run() ends (quit key, cleared flag,
\* write error, panic) the context is dropped, the drop never fails, and
\* afterwards the terminal has received the reverting commands in the
\* opposite order (all five when no teardown command failed).
C18_TerminalModesRestored ==
    /\ [](pc # "dropped" => ui.output = [sent |-> StartOrder, failed |-> FALSE])
    /\ [](pc = "dropped" => TornDown(ui.output))
    /\ (pc \in {"returned", "failed", "panicked"}) ~> (pc = "dropped")

\* C18 witness: a run that ended by a panic has been dropped and all five
\* modes are reverted
C18_Witness ==
    /\ pc = "dropped"
    /\ ui.panic # ""
    /\ ~ui.output.failed
    /\ Teardown(ui.output) = StopOrder

\* every character of chars carries the style of the first
Uniform(chars) ==
    \A i \in 1..Len(chars) :
        /\ chars[i].attribute = chars[1].attribute
        /\ chars[i].foreground = chars[1].foreground
        /\ chars[i].background = chars[1].background

StyleOps == {"SetAttributes", "SetForegroundColor", "SetBackgroundColor"}

\* the tokens a writer holding `before` tokens has added in `out`
Emitted(before, out) == SubSeq(out, before + 1, Len(out))

\* the colour the writer tracks when it compares the colours of ch: the
\* tracked one, or Reset when ch has just changed the attributes to a set
\* with Attribute::Reset
TrackedAtCompare(w, ch, colour) ==
    IF w.current_attribute # ch.attribute /\ "Reset" \in ch.attribute
    THEN "Reset" ELSE colour

\* em, the tokens emitted for a uniform run starting with ch by a writer
\* that was in state w: style tokens come before the first glyph, at most one
\* of each kind, and only for a value that differs from the tracked one
DiffedOnce(w, ch, em) ==
    /\ \A p \in 1..Len(em) :
           em[p].op \in StyleOps => \A q \in 1..p : em[q].op # "Glyph"
    /\ \A p, q \in 1..Len(em) :
           (em[p].op \in StyleOps /\ em[p].op = em[q].op) => p = q
    /\ (\E p \in 1..Len(em) : em[p].op = "SetAttributes") =>
           w.current_attribute # ch.attribute
    /\ (\E p \in 1..Len(em) : em[p].op = "SetForegroundColor") =>
           ch.foreground # TrackedAtCompare(w, ch, w.current_color)
    /\ (\E p \in 1..Len(em) : em[p].op = "SetBackgroundColor") =>
           ch.background # TrackedAtCompare(w, ch, w.current_bgcolor)

\* the check of one run line[i..j] written after line[1..i-1]
RunDiffedOnce(w, run) ==
    DiffedOnce(w, run[1], Emitted(Len(w.out), write_slice(w, run).out))

\* C19: for every buffered line that update() is about to write and every
\* run of characters in it with one attribute set, foreground and background,
\* a writer that has written the characters before the run emits for the run
\* at most one attribute, one foreground and one background sequence, all
\* before the first character of the run and each only because the run's
\* value differs from the value the writer tracks.
C19_StyleEmittedOnce ==
    pc = "update" =>
        \A k \in 1..Len(ui.lines) :
            \A i \in 1..Len(ui.lines[k]) : \A j \in i..Len(ui.lines[k]) :
                Uniform(SubSeq(ui.lines[k], i, j)) =>
                    RunDiffedOnce(
                        write_slice(ChWriter_new(ui.size_ctx.terminal_column),
                                    SubSeq(ui.lines[k], 1, i - 1)),
                        SubSeq(ui.lines[k], i, j))

\* C19 witness: update() is about to write a line of three characters with
\* one foreground colour and attribute set, not the default ones
C19_Witness ==
    /\ pc = "update"
    /\ Len(ui.lines) = 1
    /\ Len(ui.lines[1]) >= 3
    /\ Uniform(ui.lines[1])
    /\ ui.lines[1][1].foreground # "Reset"
    /\ ui.lines[1][1].attribute # {}

\* the display width of a line, glyph by glyph
RECURSIVE WidthOf(_)
WidthOf(l) == IF l = <<>> THEN 0 ELSE width(Head(l).ch) + WidthOf(Tail(l))

\* the terminal rows a line takes: 1 for a line of width 0, else the width
\* divided by the columns and rounded up
RowsOf(l, columns) ==
    IF WidthOf(l) = 0 THEN 1 ELSE (WidthOf(l) + columns - 1) \div columns

\* the rows the last k lines take
RECURSIVE RowsOfLast(_, _, _)
RowsOfLast(lines, k, columns) ==
    IF k = 0 THEN 0
    ELSE RowsOf(lines[Len(lines)], columns)
         + RowsOfLast(SubSeq(lines, 1, Len(lines) - 1), k - 1, columns)

\* the largest number of trailing lines that fit the budget
FittingCount(lines, columns, budget) ==
    CHOOSE k \in 0..Len(lines) :
        /\ RowsOfLast(lines, k, columns) <= budget
        /\ \A m \in 0..Len(lines) : RowsOfLast(lines, m, columns) <= budget => m <= k

\* (count, margin) as the spec defines them
RealSize(lines, columns, budget) ==
    <<FittingCount(lines, columns, budget),
      budget - RowsOfLast(lines, FittingCount(lines, columns, budget), columns)>>

\* C20: for the reflowed lines of every reachable context and every slice
\* of them from an index to the end, calculate_real_size returns the largest
\* number of trailing lines whose rows fit the text rows of the terminal and
\* the rows left over, and max_scroll is the number of reflowed lines less
\* that count for the whole list.
C20_RealSizeFitsTrailingLines ==
    /\ \A from \in 0..Len(ui.reflowed_lines) :
           calculate_real_size(ui.size_ctx,
                               Slice(ui.reflowed_lines, from, Len(ui.reflowed_lines)))
           = RealSize(Slice(ui.reflowed_lines, from, Len(ui.reflowed_lines)),
                      ui.size_ctx.terminal_column, ui.size_ctx.terminal_line)
    /\ max_scroll(ui) = Len(ui.reflowed_lines)
                        - FittingCount(ui.reflowed_lines, ui.size_ctx.terminal_column,
                                       ui.size_ctx.terminal_line)

\* C20 witness: the example of the spec, three text rows and five reflowed
\* lines of one row each, with (3, 0) returned and max_scroll = 2
C20_Witness ==
    /\ ui.size_ctx.terminal_line = 3
    /\ Len(ui.reflowed_lines) = 5
    /\ \A k \in 1..5 : RowsOf(ui.reflowed_lines[k], ui.size_ctx.terminal_column) = 1
    /\ calculate_real_size(ui.size_ctx, ui.reflowed_lines) = <<3, 0>>
    /\ max_scroll(ui) = 2

\* the reverse-video state of the terminal after a token: a set of attributes
\* turns it on with Reverse and off with Reset or NoReverse, and leaves it
\* alone otherwise
ReverseAfter(rev, tok) ==
    IF tok.op = "SetAttributes"
    THEN IF "Reverse" \in tok.attrs THEN TRUE
         ELSE IF tok.attrs \cap {"Reset", "NoReverse"} # {} THEN FALSE
         ELSE rev
    ELSE IF tok.op = "SetAttribute" /\ tok.arg \in {"Reset", "NoReverse"} THEN FALSE
    ELSE rev

\* what the terminal shows for the tokens out[p..]: each glyph with the
\* reverse-video state it is drawn in
RECURSIVE Shown(_, _, _)
Shown(out, p, rev) ==
    IF p > Len(out) THEN <<>>
    ELSE IF out[p].op = "Glyph"
         THEN <<<<out[p].arg, rev>>>> \o Shown(out, p + 1, rev)
         ELSE Shown(out, p + 1, ReverseAfter(rev, out[p]))

\* character o of chunk cut of logical line L (all 0-based) lies in an
\* accepted match
InMatch(c, L, cut, o, w) ==
    \E k \in 1..Len(At(c.search_positions, L)) :
        /\ At(c.search_positions, L)[k] <= cut * w + o
        /\ cut * w + o < At(c.search_positions, L)[k] + c.search_char_len

\* reflowed line r (0-based) as it should be painted
PaintedRow(c, r, w) ==
    LET L == CHOOSE L \in 0..(Len(c.reflowed_lines_associations) - 1) :
                 \E cut \in 1..Len(At(c.reflowed_lines_associations, L)) :
                     At(c.reflowed_lines_associations, L)[cut] = r
        cut == CHOOSE cut \in 1..Len(At(c.reflowed_lines_associations, L)) :
                   At(c.reflowed_lines_associations, L)[cut] = r
    IN [o \in 1..Len(At(c.reflowed_lines, r)) |->
           <<At(c.reflowed_lines, r)[o].ch, InMatch(c, L, cut - 1, o - 1, w)>>]

\* the visible rows from..end-1 as they should be painted
RECURSIVE PaintedRows(_, _, _, _)
PaintedRows(c, from, end, w) ==
    IF from >= end THEN <<>>
    ELSE PaintedRow(c, from, w) \o PaintedRows(c, from + 1, end, w)

\* the frame of context c paints the matches and nothing else
PaintsMatches(c) ==
    /\ render(c).panic = ""
    /\ Shown(render(c).w.out, 1, FALSE)
       = PaintedRows(c, c.scroll,
                     c.scroll + calculate_real_size(
                                    c.size_ctx,
                                    Slice(c.reflowed_lines, c.scroll,
                                          Len(c.reflowed_lines)))[1],
                     c.size_ctx.terminal_column - 1)

\* the redraw of context c is a search-active one with a needle
SearchActiveRedraw(c) ==
    /\ c.panic = ""
    /\ c.need_redraw
    /\ ~c.need_reflow
    /\ Len(c.reflowed_search_positions) > 0
    /\ c.search_char_len >= 1
    /\ c.scroll <= Len(c.reflowed_lines)

\* C21: whenever update() redraws with a search active, the frame is
\* written without failure and the characters shown in reverse video are
\* exactly the visible characters of accepted matches, also for a match that
\* continues on the following rows or began above the first visible row.
C21_MatchesPaintedReversed ==
    (pc = "update" /\ SearchActiveRedraw(update_reflow(ui))) =>
        PaintsMatches(update_reflow(ui))

\* the reverse-video state of a terminal that was not reversed after the
\* tokens out[p..]
RECURSIVE TerminalReverse(_, _, _)
TerminalReverse(out, p, rev) ==
    IF p > Len(out) THEN rev
    ELSE TerminalReverse(out, p + 1, ReverseAfter(rev, out[p]))

\* the state of writer w after write_slice_reverse and the writing of one
\* more character f: reverse video is off and untracked after the slice, and
\* f is shown reversed exactly when it carries Reverse, which takes a new
\* attribute sequence
ReverseCancelled(w, f) ==
    /\ ~TerminalReverse(w.out, 1, FALSE)
    /\ "Reverse" \notin w.current_attribute
    /\ Shown(write(w, f).out, Len(w.out) + 1, TerminalReverse(w.out, 1, FALSE))
       = <<<<f.ch, "Reverse" \in f.attribute>>>>
    /\ "Reverse" \in f.attribute =>
           \E p \in 1..Len(Emitted(Len(w.out), write(w, f).out)) :
               /\ Emitted(Len(w.out), write(w, f).out)[p].op = "SetAttributes"
               /\ Emitted(Len(w.out), write(w, f).out)[p].attrs = f.attribute

\* C22: for every buffered line that update() is about to write and every
\* slice of it, the empty ones included, a writer that has written the
\* characters before the slice and then the slice through
\* write_slice_reverse leaves the terminal's reverse video off and Reverse
\* unset in its tracked attributes; a next character without Reverse is
\* shown non-reversed, and a next character carrying Reverse gets a new
\* attribute sequence.  The characters of the line are the ones it held.
C22_ReverseCancelledAfterSlice ==
    pc = "update" =>
        \A k \in 1..Len(ui.lines) :
            /\ update(ui).lines[k] = ui.lines[k]
            /\ \A i \in 1..(Len(ui.lines[k]) + 1) : \A j \in (i - 1)..Len(ui.lines[k]) :
                   \A f \in ReverseChars :
                       ReverseCancelled(
                           write_slice_reverse(
                               write_slice(ChWriter_new(ui.size_ctx.terminal_column),
                                           SubSeq(ui.lines[k], 1, i - 1)),
                               SubSeq(ui.lines[k], i, j)),
                           f)

\* C22 witness: update() is about to redraw, with a search active, a line
\* in which a match is followed by a character that carries Reverse itself
C22_Witness ==
    /\ pc = "update"
    /\ ui.need_redraw
    /\ Len(ui.reflowed_search_positions) = 1
    /\ Len(ui.lines) = 1
    /\ \E k \in 1..Len(ui.search_positions[1]) :
           /\ ui.search_positions[1][k] + 2 <= Len(ui.lines[1])
           /\ "Reverse" \in ui.lines[1][ui.search_positions[1][k] + 2].attribute

\* the prompt held by context c is the one update_prompt formats for its
\* mode, scroll and sizes, and no stage is pending
PromptCurrent(c) ==
    /\ c.prompt = prompt_text(c)
    /\ ~c.prompt_outdated
    /\ ~c.need_redraw
    /\ ~c.need_reflow

\* C23: after every completed update() the status line written last is the
\* one for the current mode (Normal: the lines status, Number: the pending
\* count, Search: the typed needle) and prompt_outdated, need_redraw and
\* need_reflow are all false.
C23_PromptCurrentAfterUpdate ==
    pc = "sleep" => PromptCurrent(ui)

\* the keys bound to SearchNext and SearchPrev
SearchMoveKeys == {Char("n"), Shift("N")}

\* C24: while no search is active (reflowed_search_positions is empty) and
\* the prompt is not taking search input, n and Shift-N at any scroll
\* position are handled without failure and leave the whole context, scroll,
\* mode, search state and dirty flags included, as it was.
C24_SearchMoveWithoutSearch ==
    (/\ pc = "poll"
     /\ Len(ui.reflowed_search_positions) = 0
     /\ ui.prompt_state.kind # "Search") =>
        \A key \in SearchMoveKeys :
            /\ keymap_get(key).kind \in {"SearchNext", "SearchPrev"}
            /\ handle_event(ui, KeyEvent(key)) = Handled(ui, FALSE)

\* the failures of an index out of range and of the `start > end` check
IndexFailures == {"index", "wtf"}

\* C25: no event handled in a tick, a search commit after a Resize that
\* update() has not served yet included, makes the search remap index
\* outside the association, the reflowed lines or the reflowed search
\* positions, and the update() that follows does not index outside them nor
\* meet `start > end` while it renders.
C25_NoStaleIndexing ==
    /\ pc = "poll" =>
           \A event \in SearchEvents :
               handle_event(ui, event).c.panic \notin IndexFailures
    /\ pc = "update" => update(ui).panic \notin IndexFailures

\* the most reflowed lines a document can give: one per blank line and one
\* per character of the other lines
RECURSIVE MostChunks(_)
MostChunks(lines) ==
    IF lines = <<>> THEN 0
    ELSE (IF Len(Head(lines)) = 0 THEN 1 ELSE Len(Head(lines))) + MostChunks(Tail(lines))

\* C26: for every buffered content and every terminal size of at least one
\* column and one row, the reflow rebuild of update() comes to an end and
\* leaves a number of reflowed lines bounded by the content.
C26_ReflowTerminates ==
    (pc = "update" /\ ui.size_ctx.terminal_column >= 1) =>
        /\ update_reflow(ui).panic # "hang"
        /\ Len(update_reflow(ui).reflowed_lines) <= MostChunks(ui.lines)

====
